---- MODULE Spec2Model ----
(***************************************************************************)
(* Model of the tune pipeline (src/tooling/tune_pipeline): MIDI decoding,  *)
(* tempo maps, note/score alignment, hand splitting, nugget resolution and *)
(* region slicing.                                                         *)
(*                                                                         *)
(* Units.  Every time (seconds in the code) is an integer number of        *)
(* microseconds, so EPS = 1e-6 s is 1.  Every score offset (quarterLength  *)
(* in the code) is an integer number of eighth notes (half quarters), so   *)
(* one offset unit at tempo bpm lasts 30000000 / bpm microseconds.         *)
(* Confidences are tenths (1.0 -> 10, 0.7 -> 7, 0.4 -> 4, 0.2 -> 2).       *)
(* An Optional value is a sequence: None is <<>>, a present value x <<x>>. *)
(***************************************************************************)
EXTENDS Integers, Sequences, FiniteSets, TLC

VARIABLES
    pc,              \* position of the run: which stage has completed
    midi_notes,      \* notes of the MIDI file, in file (instrument) order
    note_sequences,  \* [full, rh, lh]: Optional note sequence per track
    extracted,       \* Optional slice written by region extraction
    score_events,    \* ScoreEvent list of parse_score_events
    alignment,       \* Optional AlignmentResult of align_notes
    score,           \* the parsed score: measures of the part, tempo boundaries
    nuggets,         \* the teacher's nugget list
    resolved,        \* Optional outcome of resolve_nuggets
    tempo_marks,     \* tempo schedule of the score: sequence of <<offset, bpm>>
    midi_tempo_changes, \* Optional [times, tempi] of the MIDI file's tempo table
    midi_tempos,     \* Optional result of midi_tempo_map
    seconds_at       \* Optional record of offset-to-seconds conversions

trackVars == <<midi_notes, note_sequences, extracted>>
alignVars == <<score_events, alignment>>
resolveVars == <<score, nuggets, resolved>>
tempoVars == <<tempo_marks, midi_tempo_changes, midi_tempos, seconds_at>>

vars == <<pc, trackVars, alignVars, resolveVars, tempoVars>>

None == <<>>
Some(x) == <<x>>
IsSome(o) == o # <<>>
Get(o) == o[1]

Max(a, b) == IF a >= b THEN a ELSE b
Min(a, b) == IF a <= b THEN a ELSE b
Abs(x) == IF x < 0 THEN -x ELSE x

RECURSIVE SeqMax(_, _)
\* max(values, default=d) over a sequence of integers
SeqMax(s, d) ==
    IF s = <<>> THEN d
    ELSE LET m == SeqMax(Tail(s), Head(s)) IN Max(Head(s), m)

\* A NoteEvent dictionary.
Note(p, s, e) == [pitch |-> p, startTime |-> s, endTime |-> e, velocity |-> 90]

\* 60.0 / bpm seconds per quarter, as microseconds per offset unit (an eighth)
UsPerUnit(bpm) == 30000000 \div bpm

(***************************************************************************)
(* Bounds of the model.                                                    *)
(***************************************************************************)
MaxNotes == 3
MaxEvents == 2

(***************************************************************************)
(* midi_to_ns.py: midi_to_note_sequence                                    *)
(***************************************************************************)
\* key=lambda item: (item["startTime"], item["pitch"], item["endTime"]), as a <=
NoteKeyLE(a, b) ==
    \/ a.startTime < b.startTime
    \/ /\ a.startTime = b.startTime
       /\ \/ a.pitch < b.pitch
          \/ a.pitch = b.pitch /\ a.endTime <= b.endTime

\* One step of a stable sort: n goes after every element whose key is <= its key.
InsertNote(sorted, n) ==
    LET k == Cardinality({i \in 1..Len(sorted) : NoteKeyLE(sorted[i], n)})
    IN SubSeq(sorted, 1, k) \o <<n>> \o SubSeq(sorted, k + 1, Len(sorted))

RECURSIVE SortNotes(_)
\* notes.sort(key=...): list.sort is stable
SortNotes(s) ==
    IF s = <<>> THEN <<>>
    ELSE InsertNote(SortNotes(SubSeq(s, 1, Len(s) - 1)), s[Len(s)])

\* A decoder that appends the notes and forgets to sort them.
DecodeUnsorted(raw) ==
    [notes |-> raw,
     totalTime |-> SeqMax([i \in 1..Len(raw) |-> raw[i].endTime], 0),
     tempos |-> <<>>,
     timeSignatures |-> <<>>]

midi_to_note_sequence(raw) ==
    LET notes == SortNotes(raw)
    IN [notes |-> notes,
        totalTime |-> SeqMax([i \in 1..Len(notes) |-> notes[i].endTime], 0),
        tempos |-> <<>>,
        timeSignatures |-> <<>>]

\* midi.get_tempo_changes() of a MIDI file holding the schedule: the time of
\* each tempo change and the tempo that starts there
TempoChanges(schedule) ==
    LET time[k \in 1..Len(schedule)] ==
            IF k = 1 THEN 0
            ELSE time[k - 1] + (schedule[k][1] - schedule[k - 1][1]) * UsPerUnit(schedule[k - 1][2])
    IN [times |-> [k \in 1..Len(schedule) |-> time[k]],
        tempi |-> [k \in 1..Len(schedule) |-> schedule[k][2]]]

\* A conversion that divides each stretch by the tempo that starts at its end.
midi_tempo_map_next_tempo(times, tempi) ==
    IF Len(tempi) = 0 THEN <<>>
    ELSE LET quarters[k \in 1..Len(tempi)] ==
                 IF k = 1 THEN 0
                 ELSE quarters[k - 1] + ((times[k] - times[k - 1]) \div UsPerUnit(tempi[k]))
         IN [k \in 1..Len(tempi) |-> <<quarters[k], tempi[k]>>]

\* midi_tempo_map: delta_seconds / seconds_per_quarter with the tempo of the
\* stretch that ends at the change
midi_tempo_map(times, tempi) ==
    IF Len(tempi) = 0 THEN <<>>
    ELSE LET quarters[k \in 1..Len(tempi)] ==
                 IF k = 1 THEN 0
                 ELSE quarters[k - 1] + ((times[k] - times[k - 1]) \div UsPerUnit(tempi[k - 1]))
         IN [k \in 1..Len(tempi) |-> <<quarters[k], tempi[k]>>]

(***************************************************************************)
(* hands.py: split_note_sequence                                           *)
(***************************************************************************)
RECURSIVE FilterHand(_, _, _)
\* the notes, in order, whose zipped hand entry is `hand`
FilterHand(notes, hand_entries, hand) ==
    IF notes = <<>> \/ hand_entries = <<>> THEN <<>>
    ELSE LET rest == FilterHand(Tail(notes), Tail(hand_entries), hand)
         IN IF Head(hand_entries).hand = hand THEN <<Head(notes)>> \o rest ELSE rest

\* A split that returns a hand without notes as a sequence with no notes.
SplitKeepEmpty(full_sequence, hand_entries) ==
    LET base(ns) == [notes |-> ns,
                     totalTime |-> full_sequence.totalTime,
                     tempos |-> full_sequence.tempos,
                     timeSignatures |-> full_sequence.timeSignatures]
    IN <<Some(base(FilterHand(full_sequence.notes, hand_entries, "RH"))),
         Some(base(FilterHand(full_sequence.notes, hand_entries, "LH")))>>

\* returns <<rh_seq, lh_seq>>, each Optional
split_note_sequence(full_sequence, hand_entries) ==
    LET rh_notes == FilterHand(full_sequence.notes, hand_entries, "RH")
        lh_notes == FilterHand(full_sequence.notes, hand_entries, "LH")
        base(ns) == [notes |-> ns,
                     totalTime |-> full_sequence.totalTime,
                     tempos |-> full_sequence.tempos,
                     timeSignatures |-> full_sequence.timeSignatures]
    IN IF rh_notes = <<>> /\ lh_notes = <<>> THEN <<None, None>>
       ELSE <<IF rh_notes # <<>> THEN Some(base(rh_notes)) ELSE None,
              IF lh_notes # <<>> THEN Some(base(lh_notes)) ELSE None>>

(***************************************************************************)
(* nuggets_extract.py: note slicing of extract_nuggets/extract_assemblies  *)
(***************************************************************************)
RECURSIVE SliceNotes(_, _, _)
\* notes starting in [start_seconds, end_seconds), shifted to start at 0
SliceNotes(notes, start_seconds, end_seconds) ==
    IF notes = <<>> THEN <<>>
    ELSE LET note == Head(notes)
             rest == SliceNotes(Tail(notes), start_seconds, end_seconds)
         IN IF start_seconds <= note.startTime /\ note.startTime < end_seconds
            THEN <<[note EXCEPT !.startTime = @ - start_seconds,
                                !.endTime = @ - start_seconds]>> \o rest
            ELSE rest

\* A slice whose duration is always the nominal length of the window.
ExtractSliceNominal(ns, start_seconds, end_seconds) ==
    [notes |-> SliceNotes(ns.notes, start_seconds, end_seconds),
     totalTime |-> end_seconds - start_seconds]

\* the extracted note sequence of one track for one window
ExtractSlice(ns, start_seconds, end_seconds) ==
    LET sliced_notes == SliceNotes(ns.notes, start_seconds, end_seconds)
        window == end_seconds - start_seconds
        max_note_end == SeqMax([i \in 1..Len(sliced_notes) |-> sliced_notes[i].endTime], window)
    IN [notes |-> sliced_notes,
        totalTime |-> IF sliced_notes # <<>> /\ max_note_end > window
                      THEN max_note_end ELSE window]

RECURSIVE OverlapWalk(_, _, _)
\* the loop of _offset_to_seconds: the overlap of [0, offset] with each segment
OverlapWalk(boundaries, seconds, offset) ==
    IF boundaries = <<>> \/ offset <= 0 THEN seconds
    ELSE LET start == Head(boundaries)[1]
             end == Head(boundaries)[2]
             tempo == Head(boundaries)[3]
             seg_end == IF end # None THEN Min(Get(end), offset) ELSE offset
         IN OverlapWalk(Tail(boundaries),
                        IF seg_end > start
                        THEN seconds + (seg_end - start) * UsPerUnit(tempo) ELSE seconds,
                        offset)

\* A conversion at the tempo of the first segment throughout.
OffsetToSecondsFirstTempo(offset, boundaries) ==
    IF boundaries = <<>> THEN 0 ELSE offset * UsPerUnit(boundaries[1][3])

\* _offset_to_seconds of nuggets_extract.py
nuggets_extract_offset_to_seconds(offset, boundaries) == OverlapWalk(boundaries, 0, offset)

(***************************************************************************)
(* mxl_parse.py: tempo map and score events                                *)
(***************************************************************************)
DEFAULT_BPM == 120

\* A conversion that restarts the count at each tempo change.
seconds_from_offset_no_carry(offset_quarters, tempo_map) ==
    IF tempo_map = <<>> THEN offset_quarters * UsPerUnit(DEFAULT_BPM)
    ELSE LET before == {k \in 1..Len(tempo_map) : k = 1 \/ tempo_map[k][1] < offset_quarters}
             last == CHOOSE k \in before : \A j \in before : j <= k
         IN (offset_quarters - (IF last = 1 THEN 0 ELSE tempo_map[last][1]))
                * UsPerUnit(tempo_map[last][2])

\* One step of sorted(tempo_map, key=lambda item: item[0]) (stable).
InsertTempo(sorted, item) ==
    LET k == Cardinality({i \in 1..Len(sorted) : sorted[i][1] <= item[1]})
    IN SubSeq(sorted, 1, k) \o <<item>> \o SubSeq(sorted, k + 1, Len(sorted))

RECURSIVE SortTempoMap(_)
SortTempoMap(s) ==
    IF s = <<>> THEN <<>>
    ELSE InsertTempo(SortTempoMap(SubSeq(s, 1, Len(s) - 1)), s[Len(s)])

RECURSIVE TempoWalk(_, _, _, _, _)
\* the for loop of _seconds_from_offset over tempo_map[1:] and the final addition
TempoWalk(offset_quarters, changes, total_seconds, prev_offset, prev_bpm) ==
    IF changes = <<>> \/ offset_quarters <= Head(changes)[1]
    THEN total_seconds + (offset_quarters - prev_offset) * UsPerUnit(prev_bpm)
    ELSE TempoWalk(offset_quarters, Tail(changes),
                   total_seconds + (Head(changes)[1] - prev_offset) * UsPerUnit(prev_bpm),
                   Head(changes)[1], Head(changes)[2])

\* tempo_map: sequence of <<offset, bpm>>
seconds_from_offset(offset_quarters, tempo_map) ==
    IF tempo_map = <<>> THEN offset_quarters * UsPerUnit(DEFAULT_BPM)
    ELSE LET sorted == SortTempoMap(tempo_map)
         IN TempoWalk(offset_quarters, Tail(sorted), 0, 0, sorted[1][2])

\* A ScoreEvent built by parse_score_events for one pitch of a score element.
ScoreEvent(p, m, b, st, off, tempo_map) ==
    [pitch |-> p, measure |-> m, beat |-> b, staff |-> st,
     offset_quarters |-> off, onset_seconds |-> seconds_from_offset(off, tempo_map)]

\* key=lambda ev: (ev.offset_quarters, ev.pitch, ev.onset_seconds), as a <=
EventKeyLE(a, b) ==
    \/ a.offset_quarters < b.offset_quarters
    \/ /\ a.offset_quarters = b.offset_quarters
       /\ \/ a.pitch < b.pitch
          \/ a.pitch = b.pitch /\ a.onset_seconds <= b.onset_seconds

(***************************************************************************)
(* align.py                                                                *)
(***************************************************************************)
DefaultIoi == 500000        \* 0.5 s
MinTolerance == 80000       \* 0.08 s
SampleSize == 20
SearchWindow == 100
ClusterWindow == 2000000    \* 2.0 s
TierFull == 30000           \* best_delta <= 0.03
TierGood == 80000           \* best_delta <= 0.08
ConfFull == 10
ConfGood == 7
ConfWeak == 4
ConfPitchSplit == 2
CrossStaffPitch == 60
FallbackRateTenths == 7     \* matchRate < 0.7

\* An interval that takes the smaller neighbouring gap even when it is zero.
LocalIoiAnyGap(starts, index) ==
    IF Len(starts) < 2 THEN DefaultIoi
    ELSE LET prev_gap == IF index > 1 THEN {starts[index] - starts[index - 1]} ELSE {}
             next_gap == IF index < Len(starts) THEN {starts[index + 1] - starts[index]} ELSE {}
             gaps == prev_gap \cup next_gap
         IN CHOOSE g \in gaps : \A h \in gaps : g <= h

\* _local_ioi(starts, index), index counted from 1
local_ioi(starts, index) ==
    IF Len(starts) < 2 THEN DefaultIoi
    ELSE LET prev_gap == IF index > 1 THEN {starts[index] - starts[index - 1]} ELSE {}
             next_gap == IF index < Len(starts) THEN {starts[index + 1] - starts[index]} ELSE {}
             gaps == prev_gap \cup next_gap
             positive == {g \in gaps : g > 0}
         IN IF positive = {} THEN DefaultIoi
            ELSE CHOOSE g \in positive : \A h \in positive : g <= h

InsertInt(sorted, n) ==
    LET k == Cardinality({i \in 1..Len(sorted) : sorted[i] <= n})
    IN SubSeq(sorted, 1, k) \o <<n>> \o SubSeq(sorted, k + 1, Len(sorted))

RECURSIVE SortInts(_)
SortInts(s) ==
    IF s = <<>> THEN <<>>
    ELSE InsertInt(SortInts(SubSeq(s, 1, Len(s) - 1)), s[Len(s)])

RECURSIVE SumSeq(_)
SumSeq(s) == IF s = <<>> THEN 0 ELSE Head(s) + SumSeq(Tail(s))

RECURSIVE SelectInts(_, _, _)
\* [d for d in s if abs(d - center) < width]
SelectInts(s, center, width) ==
    IF s = <<>> THEN <<>>
    ELSE IF Abs(Head(s) - center) < width
         THEN <<Head(s)>> \o SelectInts(Tail(s), center, width)
         ELSE SelectInts(Tail(s), center, width)

RECURSIVE DeltasOfNote(_, _)
\* the inner loop over score_events[0:search_window] for one sampled note
DeltasOfNote(n, events) ==
    IF events = <<>> THEN <<>>
    ELSE IF n.pitch = Head(events).pitch
         THEN <<n.startTime - Head(events).onset_seconds>> \o DeltasOfNote(n, Tail(events))
         ELSE DeltasOfNote(n, Tail(events))

RECURSIVE ValidDeltas(_, _)
ValidDeltas(notes, events) ==
    IF notes = <<>> THEN <<>>
    ELSE DeltasOfNote(Head(notes), events) \o ValidDeltas(Tail(notes), events)

\* which deltas form the cluster around the median
ClusterOf(valid_deltas) ==
    LET sorted == SortInts(valid_deltas)
        median_delta == sorted[(Len(sorted) \div 2) + 1]
    IN SelectInts(sorted, median_delta, ClusterWindow)

\* global_shift as the fraction <<numerator, denominator>> = sum(cluster) / len(cluster)
GlobalShift(notes, events) ==
    LET sample == SubSeq(notes, 1, Min(Len(notes), SampleSize))
        window == SubSeq(events, 1, Min(Len(events), SearchWindow))
        valid_deltas == ValidDeltas(sample, window)
    IN IF valid_deltas = <<>> THEN <<0, 1>>
       ELSE LET cluster == ClusterOf(valid_deltas)
            IN IF cluster = <<>> THEN <<0, 1>> ELSE <<SumSeq(cluster), Len(cluster)>>

\* abs(ev.onset_seconds + global_shift - note["startTime"]), times shift[2]
ScaledDelta(ev, note, shift) ==
    Abs(shift[2] * (ev.onset_seconds - note.startTime) + shift[1])

\* tolerance = max(0.08, 0.25 * local_ioi), times 4
Tolerance4(starts, idx) == Max(4 * MinTolerance, local_ioi(starts, idx))

RECURSIVE BestMatchLast(_, _, _, _, _)
\* A candidate loop in which a later event at the same distance replaces the best.
BestMatchLast(events, note, shift, tol4, best) ==
    IF events = <<>> THEN best
    ELSE LET ev == Head(events)
             delta == ScaledDelta(ev, note, shift)
             better == /\ ev.pitch = note.pitch
                       /\ 4 * delta <= tol4 * shift[2]
                       /\ (best = None \/ delta <= Get(best)[2])
         IN BestMatchLast(Tail(events), note, shift, tol4,
                          IF better THEN Some(<<ev, delta>>) ELSE best)

RECURSIVE BestMatch(_, _, _, _, _)
\* the loop over the candidates; best is Optional <<event, scaled delta>>
BestMatch(events, note, shift, tol4, best) ==
    IF events = <<>> THEN best
    ELSE LET ev == Head(events)
             delta == ScaledDelta(ev, note, shift)
             better == /\ ev.pitch = note.pitch
                       /\ 4 * delta <= tol4 * shift[2]
                       /\ (best = None \/ delta < Get(best)[2])
         IN BestMatch(Tail(events), note, shift, tol4,
                      IF better THEN Some(<<ev, delta>>) ELSE best)

\* Tiers in the wrong order.
TierConfidenceSwapped(best_delta, den) ==
    IF best_delta <= TierFull * den THEN ConfGood
    ELSE IF best_delta <= TierGood * den THEN ConfFull
    ELSE ConfWeak

\* A tiering without the weak tier.
TierConfidenceNoWeak(best_delta, den) ==
    IF best_delta <= TierFull * den THEN ConfFull ELSE ConfGood

\* confidence of a matched note from its (scaled) best_delta
TierConfidence(best_delta, den) ==
    IF best_delta <= TierFull * den THEN ConfFull
    ELSE IF best_delta <= TierGood * den THEN ConfGood
    ELSE ConfWeak

\* A staff lookup that reads every mapped staff as the right hand.
MapStaffRightHand(staff, staff_map) ==
    IF staff \in DOMAIN staff_map THEN "RH" ELSE "Unknown"

map_staff_to_hand(staff, staff_map) ==
    IF staff \in DOMAIN staff_map THEN staff_map[staff] ELSE "Unknown"

\* sorted(pitches)[len(notes) // 2]
MedianPitch(notes) ==
    SortInts([i \in 1..Len(notes) |-> notes[i].pitch])[(Len(notes) \div 2) + 1]

pitch_split(notes) ==
    IF notes = <<>> THEN <<>>
    ELSE [i \in 1..Len(notes) |->
            [hand |-> IF notes[i].pitch >= MedianPitch(notes) THEN "RH" ELSE "LH",
             confidence |-> ConfPitchSplit]]

\* one iteration of the matching loop: <<notes_map entry, score match>>
MatchNote(notes, idx, events, shift, mode, cross_staff, staff_map) ==
    LET note == notes[idx]
        starts == [i \in 1..Len(notes) |-> notes[i].startTime]
        best == BestMatch(events, note, shift, Tolerance4(starts, idx), None)
    IN IF best = None THEN <<[hand |-> "Unknown", confidence |-> 0], None>>
       ELSE LET ev == Get(best)[1]
                tier == TierConfidence(Get(best)[2], shift[2])
                staff_hand == map_staff_to_hand(ev.staff, staff_map)
                pitch_fallback == mode = "byStaff" /\ staff_hand = "Unknown" /\ cross_staff = "allow"
                hand == IF mode # "byStaff" THEN "Unknown"
                        ELSE IF pitch_fallback
                             THEN (IF note.pitch >= CrossStaffPitch THEN "RH" ELSE "LH")
                             ELSE staff_hand
                confidence == IF pitch_fallback THEN Min(tier, ConfWeak) ELSE tier
            IN <<[hand |-> hand, confidence |-> confidence], Some(ev)>>

\* A count of the matches in the two upper tiers only.
CountUpperTiers(matched) ==
    Cardinality({i \in 1..Len(matched) : matched[i][1].confidence >= ConfGood})

\* if confidence >= 0.4: quality["matchedNotes"] += 1, over the matched notes
CountMatched(matched) ==
    Cardinality({i \in 1..Len(matched) :
                    matched[i][2] # None /\ matched[i][1].confidence >= ConfWeak})

\* The fallback test with the threshold at one half.
FallbackBelowHalf(mode, matched, total, fallback) ==
    /\ mode = "byStaff"
    /\ 2 * matched < Max(1, total)
    /\ fallback = "pitchSplit"

\* mode == "byStaff" and quality["matchRate"] < 0.7 and fallback == "pitchSplit"
FallbackApplies(mode, matched, total, fallback) ==
    /\ mode = "byStaff"
    /\ 10 * matched < FallbackRateTenths * Max(1, total)
    /\ fallback = "pitchSplit"

\* The mode echo without the override of line 126.
ModeUsedRequested(mode, falls_back) == mode

\* the mode written to hands_map.policy.mode and mode_used
ModeUsed(mode, falls_back) == IF falls_back THEN "pitchSplit" ELSE mode

\* Entries numbered from 1.
NotesEntriesFromOne(notes_map) ==
    [i \in 1..Len(notes_map) |->
       [index |-> i, hand |-> notes_map[i].hand, confidence |-> notes_map[i].confidence]]

\* notes_entries: {index, hand, confidence} for idx, mapping in enumerate(notes_map)
NotesEntries(notes_map) ==
    [i \in 1..Len(notes_map) |->
       [index |-> i - 1, hand |-> notes_map[i].hand, confidence |-> notes_map[i].confidence]]

\* settings: [mode, crossStaffHandling, staffToHandDefault, fallbackIfLowConfidence]
align_notes(notes, events, settings) ==
    LET mode == settings.mode
        cross_staff == settings.crossStaffHandling
        staff_map == settings.staffToHandDefault
        shift == GlobalShift(notes, events)
        matched == [i \in 1..Len(notes) |->
                      MatchNote(notes, i, events, shift, mode, cross_staff, staff_map)]
        matchedNotes == CountMatched(matched)
        falls_back == /\ mode # "pitchSplit"
                      /\ FallbackApplies(mode, matchedNotes, Len(notes),
                                         settings.fallbackIfLowConfidence)
        notes_map == IF mode = "pitchSplit" \/ falls_back THEN pitch_split(notes)
                     ELSE [i \in 1..Len(notes) |-> matched[i][1]]
        mode_used == IF mode = "pitchSplit" THEN mode ELSE ModeUsed(mode, falls_back)
        quality == IF mode = "pitchSplit"
                   THEN [matchedNotes |-> 0, totalNotes |-> Len(notes),
                         matchRate |-> <<0, 1>>]
                   ELSE [matchedNotes |-> matchedNotes, totalNotes |-> Len(notes),
                         matchRate |-> <<matchedNotes, Max(1, Len(notes))>>]
    IN [hands_map |->
          [policy |-> [mode |-> mode_used, crossStaffHandling |-> cross_staff,
                       staffToHandDefault |-> staff_map],
           quality |-> quality,
           pipelineSettings |-> settings,
           notes |-> NotesEntries(notes_map)],
        score_matches |-> IF mode = "pitchSplit" THEN [i \in 1..Len(notes) |-> None]
                          ELSE [i \in 1..Len(notes) |-> matched[i][2]],
        mode_used |-> mode_used]

(***************************************************************************)
(* nuggets_resolve.py                                                      *)
(***************************************************************************)
EPS == 1                    \* 1e-6 s
DefaultTempo == 120         \* _tempo_boundaries: no boundaries, or a mark without number
DefaultBeatLength == 2      \* beat_length 1.0 quarter when no time signature exists

\* A measure of the part: its number, its offset in the part and the beat
\* length of its own time signature, if it has one.
Measure(n, off, ts) == [number |-> n, offset |-> off, timeSignature |-> ts]

\* A score without measures or tempo marks.
NoScore == [part |-> <<>>, boundaries |-> <<>>]

\* boundaries: sequence of <<start, Optional end, number>> from
\* score.metronomeMarkBoundaries(); a mark without number has number 0
tempo_boundaries(boundaries) ==
    IF boundaries = <<>> THEN <<<<0, None, DefaultTempo>>>>
    ELSE [i \in 1..Len(boundaries) |->
            <<boundaries[i][1], boundaries[i][2],
              IF boundaries[i][3] = 0 THEN DefaultTempo ELSE boundaries[i][3]>>]

RECURSIVE OffsetWalk(_, _, _)
\* the loop of offset_to_seconds
OffsetWalk(boundaries, seconds, remaining) ==
    IF boundaries = <<>> \/ remaining <= 0 THEN seconds
    ELSE LET start == Head(boundaries)[1]
             end == Head(boundaries)[2]
             tempo == Head(boundaries)[3]
             segment_end == IF end # None THEN Get(end) ELSE start + remaining
             segment_length == Min(remaining, segment_end - start)
         IN OffsetWalk(Tail(boundaries), seconds + segment_length * UsPerUnit(tempo),
                       remaining - segment_length)

offset_to_seconds(offset, boundaries) == OffsetWalk(boundaries, 0, offset)

\* part.measure(measure_number): Optional measure [number, offset, timeSignature]
PartMeasure(part, measure_number) ==
    LET found == {i \in 1..Len(part) : part[i].number = measure_number}
    IN IF found = {} THEN None ELSE Some(part[CHOOSE i \in found : \A j \in found : i <= j])

\* part.recurse().getElementsByClass("TimeSignature").first(): Optional beat length
FirstTimeSignature(part) ==
    LET signed == {i \in 1..Len(part) : part[i].timeSignature # None}
    IN IF signed = {} THEN None
       ELSE part[CHOOSE i \in signed : \A j \in signed : i <= j].timeSignature

\* A lookup that takes a missing measure for one at offset 0.
MeasureOffsetOrZero(part, measure_number, beat) ==
    LET time_sig == FirstTimeSignature(part)
        beat_length == IF time_sig # None THEN Get(time_sig) ELSE DefaultBeatLength
    IN Some((beat - 1) * beat_length)

\* _measure_offset of nuggets_resolve.py: Optional offset, None when it raises
\* NuggetResolveError("Measure ... not found")
measure_offset(part, measure_number, beat) ==
    LET measure == PartMeasure(part, measure_number)
    IN IF measure = None THEN None
       ELSE LET own == Get(measure).timeSignature
                time_sig == IF own # None THEN own ELSE FirstTimeSignature(part)
                beat_length == IF time_sig # None THEN Get(time_sig) ELSE DefaultBeatLength
            IN Some(Get(measure).offset + (beat - 1) * beat_length)

RECURSIVE ExpandStart(_, _, _)
\* while start_idx > 0 and abs(notes[start_idx - 1].startTime - start_time) <= EPS
ExpandStart(notes, start_idx, start_time) ==
    IF start_idx > 1 /\ Abs(notes[start_idx - 1].startTime - start_time) <= EPS
    THEN ExpandStart(notes, start_idx - 1, start_time)
    ELSE start_idx

\* A range end that stops at the last note the window selects.
NoExpandEnd(notes, end_idx, end_onset) == end_idx

RECURSIVE ExpandEnd(_, _, _)
\* while end_idx + 1 < len(notes) and abs(notes[end_idx + 1].startTime - end_onset) <= EPS
ExpandEnd(notes, end_idx, end_onset) ==
    IF end_idx + 1 <= Len(notes) /\ Abs(notes[end_idx + 1].startTime - end_onset) <= EPS
    THEN ExpandEnd(notes, end_idx + 1, end_onset)
    ELSE end_idx

\* A window that is closed at its end.
WindowIndicesClosed(notes, start, end) ==
    {idx \in 1..Len(notes) : start <= notes[idx].startTime /\ notes[idx].startTime <= end}

\* the indices (from 1) of the notes that start in [start, end)
WindowIndices(notes, start, end) ==
    {idx \in 1..Len(notes) : start <= notes[idx].startTime /\ notes[idx].startTime < end}

SetMin(S) == CHOOSE x \in S : \A y \in S : x <= y
SetMax(S) == CHOOSE x \in S : \A y \in S : x >= y

\* A start time taken from the note the window selects first.
RawStartTime(notes, start_idx, start_time) == start_time

\* float(notes[start_idx]["startTime"]) of the returned NuggetRange
RangeStartTime(notes, start_idx, start_time) == notes[start_idx].startTime

\* _select_notes: Optional NuggetRange, indices counted from 0 as in the code
select_notes(notes, start, end) ==
    LET indices == WindowIndices(notes, start, end)
    IN IF indices = {} THEN None
       ELSE LET start_time == notes[SetMin(indices)].startTime
                end_onset == notes[SetMax(indices)].startTime
                start_idx == ExpandStart(notes, SetMin(indices), start_time)
                end_idx == ExpandEnd(notes, SetMax(indices), end_onset)
                end_time == SetMax({notes[i].endTime : i \in
                               {j \in 1..Len(notes) : Abs(notes[j].startTime - end_onset) <= EPS}})
            IN Some([noteStartIndex |-> start_idx - 1,
                     noteEndIndex |-> end_idx - 1,
                     startTime |-> RangeStartTime(notes, start_idx, start_time),
                     endTime |-> end_time])

\* A resolver in which no empty track raises.
NoTrackRaises(track_name) == FALSE

\* if nugget_range is None: if track_name == "full": raise
EmptyTrackRaises(track_name) == track_name = "full"

\* the ranges of one nugget over the tracks present: [error, ranges]
NuggetRanges(sequences, start_time, end_time) ==
    LET range(t) == IF sequences[t] = None THEN None
                    ELSE select_notes(Get(sequences[t]).notes, start_time, end_time)
    IN [error |-> \E t \in {"full", "rh", "lh"} :
                     sequences[t] # None /\ range(t) = None /\ EmptyTrackRaises(t),
        ranges |-> [full |-> range("full"), rh |-> range("rh"), lh |-> range("lh")]]

RECURSIVE ResolveLoop(_, _, _, _, _)
\* the loop of resolve_nuggets over the nuggets; entry k of the result is
\* resolved[nugget k's id] (the ids of the list are taken distinct)
ResolveLoop(part, boundaries, todo, sequences, done) ==
    IF todo = <<>> THEN [ok |-> TRUE, error |-> "", measure |-> 0, nuggets |-> done]
    ELSE LET location == Head(todo).location
             start_offset == measure_offset(part, location.startMeasure, location.startBeat)
             end_offset == measure_offset(part, location.endMeasure, location.endBeat)
         IN IF start_offset = None \/ end_offset = None
            THEN [ok |-> FALSE, error |-> "measure not found",
                  measure |-> IF start_offset = None THEN location.startMeasure
                              ELSE location.endMeasure,
                  nuggets |-> <<>>]
            ELSE LET start_time == offset_to_seconds(Get(start_offset), boundaries)
                     end_time == offset_to_seconds(Get(end_offset), boundaries)
                     found == NuggetRanges(sequences, start_time, end_time)
                 IN IF found.error
                    THEN [ok |-> FALSE, error |-> "resolved to zero notes", measure |-> 0,
                          nuggets |-> <<>>]
                    ELSE ResolveLoop(part, boundaries, Tail(todo), sequences,
                                     Append(done, [id |-> Head(todo).id,
                                                   ranges |-> found.ranges]))

\* resolve_nuggets: a record [ok, error, measure, nuggets]; ok = FALSE stands
\* for the NuggetResolveError raised, in which case no document is returned;
\* measure is the number the "Measure ... not found" message names
resolve_nuggets(the_score, the_nuggets, sequences) ==
    ResolveLoop(the_score.part, tempo_boundaries(the_score.boundaries),
                the_nuggets, sequences, <<>>)

(***************************************************************************)
(* Track specification: decode, split by hand, slice.                      *)
(***************************************************************************)
TrackNames == {"full", "rh", "lh"}
Hands == {"RH", "LH", "Unknown"}

\* Notes of the MIDI file: ties on startTime and on (startTime, pitch).
MidiNoteDomain ==
    {Note(60, 0, 500000), Note(60, 0, 250000), Note(64, 0, 500000),
     Note(60, 500000, 1000000)}

\* Region windows [start_seconds, end_seconds) in microseconds.
SliceWindows ==
    {<<0, 500000>>, <<500000, 1000000>>, <<0, 1000000>>, <<500000, 750000>>}

SeqsUpTo(S, n) == UNION {[1..k -> S] : k \in 0..n}

NoTracks == [full |-> None, rh |-> None, lh |-> None]

InitTracks ==
    /\ pc = "start"
    /\ midi_notes \in SeqsUpTo(MidiNoteDomain, MaxNotes)
    /\ note_sequences = NoTracks
    /\ extracted = None
    /\ score_events = <<>>
    /\ alignment = None
    /\ score = NoScore
    /\ nuggets = <<>>
    /\ resolved = None
    /\ tempo_marks = <<>>
    /\ midi_tempo_changes = None
    /\ midi_tempos = None
    /\ seconds_at = None

MidiToNoteSequence ==
    /\ pc = "start"
    /\ note_sequences' = [NoTracks EXCEPT !.full = Some(midi_to_note_sequence(midi_notes))]
    /\ pc' = "decoded"
    /\ UNCHANGED <<midi_notes, extracted, alignVars, resolveVars, tempoVars>>

\* the caller stores the two sequences split_note_sequence returns
StoreSplit(hand_entries) ==
    LET split == split_note_sequence(Get(note_sequences.full), hand_entries)
    IN note_sequences' = [note_sequences EXCEPT !.rh = split[1], !.lh = split[2]]

SplitNoteSequence ==
    /\ pc = "decoded"
    /\ \E hands \in [1..Len(Get(note_sequences.full).notes) -> Hands] :
         StoreSplit([i \in DOMAIN hands |-> [index |-> i - 1, hand |-> hands[i]]])
    /\ pc' = "split"
    /\ UNCHANGED <<midi_notes, extracted, alignVars, resolveVars, tempoVars>>

ExtractTrackSlice ==
    /\ pc = "split"
    /\ \E track \in TrackNames, w \in SliceWindows :
         /\ IsSome(note_sequences[track])
         /\ extracted' = Some([track |-> track, start_seconds |-> w[1], end_seconds |-> w[2],
                               ns |-> ExtractSlice(Get(note_sequences[track]), w[1], w[2])])
    /\ pc' = "sliced"
    /\ UNCHANGED <<midi_notes, note_sequences, alignVars, resolveVars, tempoVars>>

NextTracks == MidiToNoteSequence \/ SplitNoteSequence \/ ExtractTrackSlice

SpecTracks == InitTracks /\ [][NextTracks]_vars

IsSortedNotes(notes) ==
    \A i \in 1..(Len(notes) - 1) : NoteKeyLE(notes[i], notes[i + 1])

\* C1: every note list produced is sorted by (startTime, pitch, endTime): the
\* decoded full list for any file order, the RH and LH lists split from it, and
\* the re-based notes of a slice.
C1_Sorted ==
    /\ \A t \in TrackNames :
         IsSome(note_sequences[t]) => IsSortedNotes(Get(note_sequences[t]).notes)
    /\ IsSome(extracted) => IsSortedNotes(Get(extracted).ns.notes)

\* a file whose notes are out of order was decoded, both hands hold two notes
\* or more between them and a slice of at least two notes was cut
C1_Witness ==
    /\ pc = "sliced"
    /\ ~IsSortedNotes(midi_notes)
    /\ IsSome(note_sequences.rh) /\ Len(Get(note_sequences.rh).notes) >= 2
    /\ IsSome(note_sequences.lh)
    /\ Len(Get(extracted).ns.notes) >= 2
    /\ Get(extracted).start_seconds > 0

(***************************************************************************)
(* Alignment specification: align_notes on a decoded track and a score,    *)
(* then the split by the hands map it produced.                            *)
(***************************************************************************)
\* Performance notes: two pitches around the cross-staff pitch, onsets that
\* are 0, 60 ms and 500 ms.
AlignNoteDomain ==
    {Note(p, s, s + 250000) : p \in {59, 60}, s \in {0, 60000, 500000}}

AlignTempoMap == <<<<0, 120>>>>

\* Score events of measure 1 in 4/4: beats 1 and 2, staves 1 and 2.
EventDomain ==
    {ScoreEvent(p, 1, 1 + (off \div 2), st, off, AlignTempoMap) :
        p \in {59, 60}, off \in {0, 2}, st \in {1, 2}}

IsInjective(s) == \A i, j \in 1..Len(s) : i # j => s[i] # s[j]

\* lists as events.sort leaves them
EventLists ==
    {s \in SeqsUpTo(EventDomain, MaxEvents) :
        /\ IsInjective(s)
        /\ \A i \in 1..(Len(s) - 1) : EventKeyLE(s[i], s[i + 1])}

StaffMaps == {[st \in {1, 2} |-> IF st = 1 THEN "RH" ELSE "LH"], [st \in {1} |-> "RH"]}

PipelineSettings ==
    [mode : {"none", "byStaff", "pitchSplit"},
     crossStaffHandling : {"discourage", "allow"},
     staffToHandDefault : StaffMaps,
     fallbackIfLowConfidence : {"pitchSplit", "none"}]

InitAlign ==
    /\ pc = "decoded"
    /\ midi_notes \in {s \in SeqsUpTo(AlignNoteDomain, MaxNotes) :
                          IsInjective(s) /\ s = SortNotes(s)}
    /\ note_sequences = [NoTracks EXCEPT !.full = Some(midi_to_note_sequence(midi_notes))]
    /\ extracted = None
    /\ score_events \in EventLists
    /\ alignment = None
    /\ score = NoScore
    /\ nuggets = <<>>
    /\ resolved = None
    /\ tempo_marks = <<>>
    /\ midi_tempo_changes = None
    /\ midi_tempos = None
    /\ seconds_at = None

AlignNotes ==
    /\ pc = "decoded"
    /\ \E settings \in PipelineSettings :
         alignment' = Some(align_notes(Get(note_sequences.full).notes, score_events, settings))
    /\ pc' = "aligned"
    /\ UNCHANGED <<trackVars, score_events, resolveVars, tempoVars>>

SplitByHandsMap ==
    /\ pc = "aligned"
    /\ StoreSplit(Get(alignment).hands_map.notes)
    /\ pc' = "split"
    /\ UNCHANGED <<midi_notes, extracted, alignVars, resolveVars, tempoVars>>

NextAlign == AlignNotes \/ SplitByHandsMap

SpecAlign == InitAlign /\ [][NextAlign]_vars

\* the policy align_notes was called with, echoed in the hands map
Requested == Get(alignment).hands_map.pipelineSettings
FullNotes == Get(note_sequences.full).notes
HandEntries == Get(alignment).hands_map.notes

\* quality.matchRate < 0.7
LowMatchRate ==
    LET rate == Get(alignment).hands_map.quality.matchRate
    IN 10 * rate[1] < 7 * rate[2]

\* C2: byStaff requested with fallbackIfLowConfidence = pitchSplit and a match
\* rate below 0.7 gives mode pitchSplit and confidence 0.2 on every note.
C2_Fallback ==
    (IsSome(alignment) /\ Requested.mode = "byStaff"
        /\ Requested.fallbackIfLowConfidence = "pitchSplit" /\ LowMatchRate)
    => /\ Get(alignment).mode_used = "pitchSplit"
       /\ Get(alignment).hands_map.policy.mode = "pitchSplit"
       /\ \A i \in 1..Len(HandEntries) : HandEntries[i].confidence = 2

\* the fallback replaced a byStaff result in which some but not enough notes matched
C2_Witness ==
    /\ IsSome(alignment)
    /\ Requested.mode = "byStaff" /\ Requested.fallbackIfLowConfidence = "pitchSplit"
    /\ LowMatchRate
    /\ Get(alignment).hands_map.quality.matchedNotes >= 2
    /\ Len(HandEntries) = 3

\* every entry is what the pitch-median heuristic gives
IsPitchMedianArray ==
    /\ Len(HandEntries) = Len(FullNotes)
    /\ \A i \in 1..Len(HandEntries) :
         /\ HandEntries[i].confidence = 2
         /\ HandEntries[i].hand =
              IF FullNotes[i].pitch >= MedianPitch(FullNotes) THEN "RH" ELSE "LH"

\* every entry is a score-matching result: unmatched, or matched with a tier
IsScoreMatchArray ==
    /\ Len(HandEntries) = Len(FullNotes)
    /\ \A i \in 1..Len(HandEntries) :
         IF Get(alignment).score_matches[i] = None
         THEN HandEntries[i].hand = "Unknown" /\ HandEntries[i].confidence = 0
         ELSE HandEntries[i].confidence \in {4, 7, 10}

\* C3: the reported mode names the strategy that produced the array: pitchSplit
\* exactly when the array is the pitch-median one (requested, or substituted
\* by the fallback), otherwise the requested mode with the matching result.
C3_ModeIsStrategy ==
    IsSome(alignment) =>
      LET substituted == /\ Requested.mode = "byStaff"
                         /\ Requested.fallbackIfLowConfidence = "pitchSplit"
                         /\ LowMatchRate
          by_median == Requested.mode = "pitchSplit" \/ substituted
      IN /\ Get(alignment).mode_used = Get(alignment).hands_map.policy.mode
         /\ (Get(alignment).mode_used = "pitchSplit") <=> by_median
         /\ by_median => IsPitchMedianArray
         /\ ~by_median => (Get(alignment).mode_used = Requested.mode /\ IsScoreMatchArray)

\* byStaff was kept although the fallback policy is pitchSplit, because the
\* match rate reached 0.7, with a matched note on an unmapped staff
C3_Witness ==
    /\ IsSome(alignment)
    /\ Requested.mode = "byStaff" /\ Requested.fallbackIfLowConfidence = "pitchSplit"
    /\ ~LowMatchRate
    /\ Get(alignment).mode_used = "byStaff"
    /\ Len(HandEntries) = 3
    /\ \E i \in 1..Len(HandEntries) : HandEntries[i].hand = "Unknown"

\* the matched delta of note i, scaled by the denominator of the global shift
MatchedDelta(i) ==
    ScaledDelta(Get(Get(alignment).score_matches[i]), FullNotes[i],
                GlobalShift(FullNotes, score_events))

IsMatched(i) == Get(alignment).score_matches[i] # None

\* note i took the pitch fallback for an unmapped staff, which caps its confidence
TookCrossStaffFallback(i) ==
    /\ Get(alignment).mode_used = "byStaff"
    /\ Requested.crossStaffHandling = "allow"
    /\ Get(Get(alignment).score_matches[i]).staff \notin DOMAIN Requested.staffToHandDefault

\* C8 as stated: a smaller matched delta never has the smaller confidence,
\* under every policy.
C8_Monotone ==
    IsSome(alignment) =>
      \A i, j \in 1..Len(HandEntries) :
        (IsMatched(i) /\ IsMatched(j) /\ MatchedDelta(i) < MatchedDelta(j))
        => HandEntries[i].confidence >= HandEntries[j].confidence

\* C8 amended: a smaller matched delta never has the smaller confidence,
\* unless the note with the smaller delta took the cross-staff pitch fallback.
C8_MonotoneUncapped ==
    IsSome(alignment) =>
      \A i, j \in 1..Len(HandEntries) :
        (IsMatched(i) /\ IsMatched(j) /\ MatchedDelta(i) < MatchedDelta(j)
            /\ ~TookCrossStaffFallback(i))
        => HandEntries[i].confidence >= HandEntries[j].confidence

\* two matched notes of one byStaff run, the nearer one in a higher tier
C8_Witness ==
    /\ IsSome(alignment)
    /\ Get(alignment).mode_used = "byStaff"
    /\ \E i, j \in 1..Len(HandEntries) :
         /\ IsMatched(i) /\ IsMatched(j) /\ MatchedDelta(i) < MatchedDelta(j)
         /\ ~TookCrossStaffFallback(i)
         /\ HandEntries[i].confidence > HandEntries[j].confidence

(***************************************************************************)
(* Resolution specification: a decoded track is split by hand and the      *)
(* nuggets are resolved against the full, rh and lh tracks.                *)
(***************************************************************************)
MaxNuggets == 2

\* A chord at 0 whose lower note rings longer, a note on beat 3 (1 s at 120
\* bpm) and two notes starting 1 and 2 microseconds before it.
ResolveNoteDomain ==
    {Note(60, 0, 500000), Note(64, 0, 500000), Note(60, 0, 1000000),
     Note(62, 999998, 1499998), Note(62, 999999, 1499999),
     Note(67, 1000000, 1500000)}

\* Two measures of 4/4 (8 eighths each) at a constant 120 bpm.
CommonTimeScore ==
    [part |-> <<Measure(1, 0, Some(2)), Measure(2, 8, None)>>,
     boundaries |-> <<<<0, Some(16), 120>>>>]

Location(sm, sb, em, eb) ==
    [startMeasure |-> sm, startBeat |-> sb, endMeasure |-> em, endBeat |-> eb]

\* measure 1 beats 1 to 3, beats 3 to 4, an empty stretch of measure 2, a span
\* that ends in a measure the part does not have and one that starts in one
NuggetLocations ==
    {Location(1, 1, 1, 3), Location(1, 3, 1, 4), Location(2, 1, 2, 2), Location(1, 1, 3, 1),
     Location(4, 1, 1, 3)}

NuggetLists ==
    {[k \in 1..Len(locs) |-> [id |-> k, location |-> locs[k]]] :
        locs \in SeqsUpTo(NuggetLocations, MaxNuggets)}

InitResolve ==
    /\ pc = "decoded"
    /\ midi_notes \in {s \in SeqsUpTo(ResolveNoteDomain, MaxNotes) :
                          IsInjective(s) /\ s = SortNotes(s)}
    /\ note_sequences = [NoTracks EXCEPT !.full = Some(midi_to_note_sequence(midi_notes))]
    /\ extracted = None
    /\ score_events = <<>>
    /\ alignment = None
    /\ score = CommonTimeScore
    /\ nuggets \in NuggetLists
    /\ resolved = None
    /\ tempo_marks = <<>>
    /\ midi_tempo_changes = None
    /\ midi_tempos = None
    /\ seconds_at = None

ResolveNuggets ==
    /\ pc = "split"
    /\ resolved' = Some(resolve_nuggets(score, nuggets, note_sequences))
    /\ pc' = "resolved"
    /\ UNCHANGED <<trackVars, alignVars, score, nuggets, tempoVars>>

NextResolve == SplitNoteSequence \/ ResolveNuggets

SpecResolve == InitResolve /\ [][NextResolve]_vars

ResolvedOk == IsSome(resolved) /\ Get(resolved).ok

TrackNotes(t) == Get(note_sequences[t]).notes

\* the window of nugget k in microseconds, when both measures exist
WindowStart(k) ==
    offset_to_seconds(
        Get(measure_offset(score.part, nuggets[k].location.startMeasure,
                           nuggets[k].location.startBeat)),
        tempo_boundaries(score.boundaries))
WindowEnd(k) ==
    offset_to_seconds(
        Get(measure_offset(score.part, nuggets[k].location.endMeasure,
                           nuggets[k].location.endBeat)),
        tempo_boundaries(score.boundaries))
MeasuresExist(k) ==
    /\ PartMeasure(score.part, nuggets[k].location.startMeasure) # None
    /\ PartMeasure(score.part, nuggets[k].location.endMeasure) # None

\* the notes of track t that start inside the window of nugget k
Selected(t, k) == WindowIndices(TrackNotes(t), WindowStart(k), WindowEnd(k))

\* the resolved range of nugget k for track t
RangeOf(k, t) == Get(Get(resolved).nuggets[k].ranges[t])
HasRange(k, t) == Get(resolved).nuggets[k].ranges[t] # None

SameOnset(a, b) == Abs(a.startTime - b.startTime) <= EPS

\* C4 as stated: the notes just outside a resolved range do not share a start
\* time (within EPS) with the boundary notes inside the range.
C4_NoSplitAtRangeBoundary ==
    ResolvedOk =>
      \A k \in 1..Len(nuggets), t \in TrackNames :
        HasRange(k, t) =>
          LET notes == TrackNotes(t)
              first == RangeOf(k, t).noteStartIndex + 1
              last == RangeOf(k, t).noteEndIndex + 1
          IN /\ first > 1 => ~SameOnset(notes[first - 1], notes[first])
             /\ last < Len(notes) => ~SameOnset(notes[last + 1], notes[last])

\* C4 amended: the notes just outside a resolved range do not share a start
\* time (within EPS) with the first and the last note the window selects, and
\* the range holds the window's notes; so a chord-mate of a raw boundary note
\* is always inside the range.
C4_NoSplitOfRawBoundary ==
    ResolvedOk =>
      \A k \in 1..Len(nuggets), t \in TrackNames :
        HasRange(k, t) =>
          LET notes == TrackNotes(t)
              first == RangeOf(k, t).noteStartIndex + 1
              last == RangeOf(k, t).noteEndIndex + 1
              raw_first == SetMin(Selected(t, k))
              raw_last == SetMax(Selected(t, k))
          IN /\ first <= raw_first /\ raw_last <= last
             /\ first > 1 => ~SameOnset(notes[first - 1], notes[raw_first])
             /\ last < Len(notes) => ~SameOnset(notes[last + 1], notes[raw_last])
             /\ \A i \in 1..Len(notes) :
                  (SameOnset(notes[i], notes[raw_first]) \/ SameOnset(notes[i], notes[raw_last]))
                  => (first <= i /\ i <= last)

\* a range was widened at both ends beyond the notes its window selects
C4_Witness ==
    /\ ResolvedOk
    /\ \E k \in 1..Len(nuggets), t \in TrackNames :
         /\ HasRange(k, t)
         /\ RangeOf(k, t).noteStartIndex + 1 < SetMin(Selected(t, k))
         /\ \E j \in 1..Len(nuggets), u \in TrackNames :
              HasRange(j, u) /\ RangeOf(j, u).noteEndIndex + 1 > SetMax(Selected(u, j))

\* the first nugget of the list that cannot be resolved, or 0
FirstFailing ==
    LET failing == {k \in 1..Len(nuggets) :
                      ~MeasuresExist(k) \/ Selected("full", k) = {}}
    IN IF failing = {} THEN 0 ELSE SetMin(failing)

\* C5: a nugget that selects no note of the full track fails the resolution
\* with the zero-notes error and no document; a secondary track without
\* selected notes is only left out of the nugget's ranges.
C5_EmptyFullRaises ==
    IsSome(resolved) =>
      /\ (\E k \in 1..Len(nuggets) : MeasuresExist(k) /\ Selected("full", k) = {})
           => (~Get(resolved).ok /\ Get(resolved).nuggets = <<>>)
      /\ (FirstFailing # 0 /\ MeasuresExist(FirstFailing))
           => Get(resolved).error = "resolved to zero notes"
      /\ Get(resolved).ok =>
           /\ Len(Get(resolved).nuggets) = Len(nuggets)
           /\ \A k \in 1..Len(nuggets) :
                /\ HasRange(k, "full")
                /\ \A t \in {"rh", "lh"} :
                     HasRange(k, t) <=> (IsSome(note_sequences[t]) /\ Selected(t, k) # {})

\* the second nugget selects no full-track note after a first that resolved
C5_Witness ==
    /\ IsSome(resolved) /\ ~Get(resolved).ok
    /\ Get(resolved).error = "resolved to zero notes"
    /\ FirstFailing = 2
    /\ IsSome(note_sequences.rh) /\ IsSome(note_sequences.lh)

\* a nugget resolved with the lh track present but left out of its ranges
C5_WitnessSecondary ==
    /\ ResolvedOk
    /\ \E k \in 1..Len(nuggets) :
         IsSome(note_sequences.lh) /\ ~HasRange(k, "lh") /\ HasRange(k, "rh")

ExampleNotes == <<Note(60, 0, 500000), Note(64, 0, 500000), Note(67, 1000000, 1500000)>>

\* C6: the end-to-end example: the nugget from measure 1 beat 1 to measure 1
\* beat 3 resolves for the full track to indices 0..2 and times 0.0..1.5 s.
C6_Example ==
    (/\ IsSome(resolved)
     /\ TrackNotes("full") = ExampleNotes
     /\ score = CommonTimeScore
     /\ Len(nuggets) = 1 /\ nuggets[1].location = Location(1, 1, 1, 3))
    => /\ Get(resolved).ok
       /\ HasRange(1, "full")
       /\ RangeOf(1, "full") = [noteStartIndex |-> 0, noteEndIndex |-> 2,
                                startTime |-> 0, endTime |-> 1500000]

MaxTempos == 3
MaxOffset == 6

TempoValues == {60, 120}

\* schedules that start at offset 0 with strictly ascending offsets
TempoSchedules ==
    {s \in SeqsUpTo((0..MaxOffset) \X TempoValues, MaxTempos) :
        /\ s # <<>> => s[1][1] = 0
        /\ \A k \in 1..(Len(s) - 1) : s[k][1] < s[k + 1][1]}

\* score.metronomeMarkBoundaries() for the schedule: contiguous stretches, the
\* last one ending at last_end
BoundariesOf(schedule, last_end) ==
    [k \in 1..Len(schedule) |->
        <<schedule[k][1],
          IF k < Len(schedule) THEN Some(schedule[k + 1][1]) ELSE last_end,
          schedule[k][2]>>]

InitTempo ==
    /\ pc = "start"
    /\ midi_notes = <<>>
    /\ note_sequences = NoTracks
    /\ extracted = None
    /\ score_events = <<>>
    /\ alignment = None
    /\ tempo_marks \in TempoSchedules
    /\ \E last_end \in {None, Some(MaxOffset)} :
         score = [part |-> <<>>, boundaries |-> BoundariesOf(tempo_marks, last_end)]
    /\ nuggets = <<>>
    /\ resolved = None
    /\ midi_tempo_changes = None
    /\ midi_tempos = None
    /\ seconds_at = None

\* the schedule is written to the MIDI file and its tempo table read
GetTempoChanges ==
    /\ pc = "start"
    /\ tempo_marks # <<>>
    /\ midi_tempo_changes' = Some(TempoChanges(tempo_marks))
    /\ pc' = "table"
    /\ UNCHANGED <<trackVars, alignVars, resolveVars, tempo_marks, midi_tempos, seconds_at>>

MidiTempoMap ==
    /\ pc = "table"
    /\ midi_tempos' = Some(midi_tempo_map(Get(midi_tempo_changes).times,
                                          Get(midi_tempo_changes).tempi))
    /\ pc' = "mapped"
    /\ UNCHANGED <<trackVars, alignVars, resolveVars, tempo_marks, midi_tempo_changes, seconds_at>>

\* parse_score_events: tempo_map = midi_tempos if midi_tempos else the marks
\* of the score
ParseTempoMap ==
    IF midi_tempos # None /\ Get(midi_tempos) # <<>> THEN Get(midi_tempos) ELSE tempo_marks

\* two offsets are converted by _seconds_from_offset, by offset_to_seconds and
\* by _offset_to_seconds of nuggets_extract.py
ConvertOffsets ==
    /\ pc \in {"start", "mapped"}
    /\ \E x \in 0..MaxOffset, y \in 0..MaxOffset :
         /\ x <= y
         /\ seconds_at' =
              Some([offsets |-> <<x, y>>,
                    parse |-> <<seconds_from_offset(x, ParseTempoMap),
                                seconds_from_offset(y, ParseTempoMap)>>,
                    resolve |-> <<offset_to_seconds(x, tempo_boundaries(score.boundaries)),
                                  offset_to_seconds(y, tempo_boundaries(score.boundaries))>>,
                    extract |-> <<nuggets_extract_offset_to_seconds(
                                      x, tempo_boundaries(score.boundaries)),
                                  nuggets_extract_offset_to_seconds(
                                      y, tempo_boundaries(score.boundaries))>>])
    /\ pc' = "converted"
    /\ UNCHANGED <<trackVars, alignVars, resolveVars, tempo_marks, midi_tempo_changes, midi_tempos>>

NextTempo == GetTempoChanges \/ MidiTempoMap \/ ConvertOffsets

SpecTempo == InitTempo /\ [][NextTempo]_vars

\* C9: a schedule that starts at offset 0, written as an absolute-time tempo
\* table and read back by midi_tempo_map, is the same segment sequence, and
\* offsets convert to the same seconds under both.
C9_RoundTrip ==
    /\ midi_tempos # None => Get(midi_tempos) = tempo_marks
    /\ (midi_tempos # None /\ seconds_at # None) =>
         \A i \in 1..2 :
           Get(seconds_at).parse[i] = seconds_from_offset(Get(seconds_at).offsets[i], tempo_marks)

\* a schedule with two tempo changes went through the table and an offset past
\* the last change was converted with the map read back
C9_Witness ==
    /\ midi_tempos # None /\ seconds_at # None
    /\ Len(tempo_marks) = 3
    /\ tempo_marks[1][2] # tempo_marks[2][2] /\ tempo_marks[2][2] # tempo_marks[3][2]
    /\ Get(seconds_at).offsets[2] > tempo_marks[3][1]

\* C10: both conversions are monotonic non-decreasing in the offset and give
\* 0 at offset 0; without tempo entries they are the constant 120 bpm.
C10_Monotone ==
    seconds_at # None =>
      LET q == Get(seconds_at)
      IN /\ q.parse[1] <= q.parse[2]
         /\ q.resolve[1] <= q.resolve[2]
         /\ q.offsets[1] = 0 => (q.parse[1] = 0 /\ q.resolve[1] = 0)
         /\ tempo_marks = <<>> =>
              \A i \in 1..2 : /\ q.parse[i] = q.offsets[i] * 250000
                              /\ q.resolve[i] = q.offsets[i] * 250000

\* two offsets on either side of a change to a faster tempo were converted
C10_Witness ==
    /\ seconds_at # None
    /\ Len(tempo_marks) >= 2
    /\ tempo_marks[1][2] < tempo_marks[2][2]
    /\ Get(seconds_at).offsets[1] < tempo_marks[2][1]
    /\ Get(seconds_at).offsets[2] > tempo_marks[2][1]
    /\ Get(seconds_at).parse[1] < Get(seconds_at).parse[2]

\* offsets were converted without any tempo entry
C10_WitnessDefault ==
    /\ seconds_at # None /\ tempo_marks = <<>>
    /\ Get(seconds_at).offsets[2] > 0

(***************************************************************************)
(* Pipeline specification: align_notes on a played track, the split by the *)
(* hands map it produced, then resolve_nuggets on the tracks.              *)
(***************************************************************************)
\* Played notes: one on beat 1, and around beat 3 (1 s at 120 bpm) a note
\* played 20 ms early and two played on time.
PipelineNoteDomain ==
    {Note(60, 0, 500000), Note(62, 980000, 1480000),
     Note(62, 1000000, 1500000), Note(64, 1000000, 1500000)}

\* Score events of measure 1 as parse_score_events returns them: pitch 60 on
\* beat 1, pitches 62 and 64 on beat 3.
PipelineEvents ==
    <<ScoreEvent(60, 1, 1, 1, 0, AlignTempoMap),
      ScoreEvent(62, 1, 3, 1, 4, AlignTempoMap),
      ScoreEvent(64, 1, 3, 2, 4, AlignTempoMap)>>

InitPipeline ==
    /\ pc = "decoded"
    /\ midi_notes \in {s \in SeqsUpTo(PipelineNoteDomain, MaxNotes) :
                          IsInjective(s) /\ s = SortNotes(s)}
    /\ note_sequences = [NoTracks EXCEPT !.full = Some(midi_to_note_sequence(midi_notes))]
    /\ extracted = None
    /\ score_events = PipelineEvents
    /\ alignment = None
    /\ score = CommonTimeScore
    /\ nuggets \in NuggetLists
    /\ resolved = None
    /\ tempo_marks = <<>>
    /\ midi_tempo_changes = None
    /\ midi_tempos = None
    /\ seconds_at = None

NextPipeline == AlignNotes \/ SplitByHandsMap \/ ResolveNuggets

SpecPipeline == InitPipeline /\ [][NextPipeline]_vars

\* the (measure, beat) of a score event lies within the location, compared
\* by measure and then by beat, both ends included
InLocation(ev, location) ==
    /\ \/ ev.measure > location.startMeasure
       \/ ev.measure = location.startMeasure /\ ev.beat >= location.startBeat
    /\ \/ ev.measure < location.endMeasure
       \/ ev.measure = location.endMeasure /\ ev.beat <= location.endBeat

\* the full-track notes whose matched score event lies within nugget k
SymbolicSelection(k) ==
    {i \in 1..Len(FullNotes) :
        IsMatched(i) /\ InLocation(Get(Get(alignment).score_matches[i]), nuggets[k].location)}

\* the note indices (from 1) of the resolved range of nugget k for track t
RangeIndices(k, t) == (RangeOf(k, t).noteStartIndex + 1)..(RangeOf(k, t).noteEndIndex + 1)

\* C11: after a score-matching alignment, the full-track range of every
\* resolved nugget holds exactly the notes whose matched score event lies
\* within the nugget's location, so two notes matched to events of the same
\* measure and beat are in the range together or not at all, whatever their
\* start times.
C11_SymbolicFullTrack ==
    (IsSome(alignment) /\ Get(alignment).mode_used # "pitchSplit" /\ ResolvedOk) =>
      \A k \in 1..Len(nuggets) :
        /\ RangeIndices(k, "full") = SymbolicSelection(k)
        /\ \A i, j \in 1..Len(FullNotes) :
             (/\ IsMatched(i) /\ IsMatched(j)
              /\ Get(Get(alignment).score_matches[i]).measure
                   = Get(Get(alignment).score_matches[j]).measure
              /\ Get(Get(alignment).score_matches[i]).beat
                   = Get(Get(alignment).score_matches[j]).beat)
             => ((i \in RangeIndices(k, "full")) <=> (j \in RangeIndices(k, "full")))

(***************************************************************************)
(* Further properties of the alignment specification.                      *)
(***************************************************************************)
\* C12: whenever the mode used is pitchSplit, requested or reached through
\* the fallback, every entry of score_matches is None.
C12_NoMatchesInPitchSplit ==
    (IsSome(alignment) /\ Get(alignment).mode_used = "pitchSplit") =>
      \A i \in 1..Len(Get(alignment).score_matches) : ~IsMatched(i)

\* the indices of the full-track notes whose hand entry is `hand`
HandIndices(hand) == {i \in 1..Len(HandEntries) : HandEntries[i].hand = hand}

\* the k-th smallest element of a set of indices
KthIndex(S, k) == CHOOSE i \in S : Cardinality({j \in S : j <= i}) = k

\* track t is what filtering the full track by `hand` gives: absent when no
\* note has that hand, otherwise those notes in their original order with
\* the totalTime, tempos and timeSignatures of the full sequence
IsFilteredTrack(t, hand) ==
    LET S == HandIndices(hand)
        full == Get(note_sequences.full)
    IN IF S = {} THEN note_sequences[t] = None
       ELSE /\ IsSome(note_sequences[t])
            /\ Len(TrackNotes(t)) = Cardinality(S)
            /\ \A k \in 1..Cardinality(S) : TrackNotes(t)[k] = FullNotes[KthIndex(S, k)]
            /\ Get(note_sequences[t]).totalTime = full.totalTime
            /\ Get(note_sequences[t]).tempos = full.tempos
            /\ Get(note_sequences[t]).timeSignatures = full.timeSignatures

\* C13: after the split, rh holds exactly the notes with hand RH and lh those
\* with hand LH, in the original order, notes with hand Unknown in neither;
\* the non-note fields are those of the full sequence; a hand without notes
\* is absent, never a sequence with an empty note list.
C13_SplitPartition ==
    pc = "split" =>
      /\ IsFilteredTrack("rh", "RH")
      /\ IsFilteredTrack("lh", "LH")
      /\ \A t \in {"rh", "lh"} : IsSome(note_sequences[t]) => TrackNotes(t) # <<>>

\* a split of three notes: two RH notes around an Unknown one, no LH note
C13_Witness ==
    /\ pc = "split"
    /\ Len(FullNotes) = 3
    /\ HandEntries[1].hand = "RH" /\ HandEntries[2].hand = "Unknown"
    /\ HandEntries[3].hand = "RH"
    /\ note_sequences.lh = None
    /\ IsSome(note_sequences.rh)

\* C14: in every mode the hands map has one entry per performance note, as
\* many as quality.totalNotes and as score_matches, and entry i has index i
\* (counted from 0).
C14_EntriesAligned ==
    IsSome(alignment) =>
      /\ Len(HandEntries) = Len(FullNotes)
      /\ Get(alignment).hands_map.quality.totalNotes = Len(FullNotes)
      /\ Len(Get(alignment).score_matches) = Len(FullNotes)
      /\ \A i \in 1..Len(HandEntries) : HandEntries[i].index = i - 1

\* three notes went through score matching, one of them without a match
C14_Witness ==
    /\ IsSome(alignment)
    /\ Get(alignment).mode_used = "byStaff"
    /\ Len(FullNotes) = 3
    /\ \E i, j \in 1..3 : IsMatched(i) /\ ~IsMatched(j)
    /\ HandEntries[3].index = 2

(***************************************************************************)
(* Further properties of the track specification.                          *)
(***************************************************************************)
\* the track a slice was cut from, and the indices of its notes that start
\* inside the window
SlicedTrackNotes == TrackNotes(Get(extracted).track)
SliceIndices ==
    {i \in 1..Len(SlicedTrackNotes) :
        /\ Get(extracted).start_seconds <= SlicedTrackNotes[i].startTime
        /\ SlicedTrackNotes[i].startTime < Get(extracted).end_seconds}

\* C15: a slice over [start_seconds, end_seconds) holds exactly the notes that
\* start in the window, in order, each with both times reduced by
\* start_seconds; totalTime is the larger of the window length and the latest
\* shifted endTime; the track sliced is the one that was decoded.
C15_Slice ==
    IsSome(extracted) =>
      LET x == Get(extracted)
          out == x.ns.notes
          window == x.end_seconds - x.start_seconds
          ends == {out[k].endTime : k \in 1..Len(out)}
      IN /\ Len(out) = Cardinality(SliceIndices)
         /\ \A k \in 1..Len(out) :
              LET note == SlicedTrackNotes[KthIndex(SliceIndices, k)]
              IN /\ out[k].pitch = note.pitch
                 /\ out[k].startTime = note.startTime - x.start_seconds
                 /\ out[k].endTime = note.endTime - x.start_seconds
                 /\ out[k].endTime - out[k].startTime = note.endTime - note.startTime
                 /\ 0 <= out[k].startTime /\ out[k].startTime < window
         /\ x.ns.totalTime = IF ends = {} THEN window ELSE Max(window, SetMax(ends))
         /\ Get(note_sequences.full) = midi_to_note_sequence(midi_notes)

\* a window that starts after 0 left a note out and kept a note that rings
\* past the end of the window
C15_Witness ==
    /\ IsSome(extracted)
    /\ Get(extracted).start_seconds > 0
    /\ Get(extracted).ns.notes # <<>>
    /\ Len(Get(extracted).ns.notes) < Len(SlicedTrackNotes)
    /\ Get(extracted).ns.totalTime > Get(extracted).end_seconds - Get(extracted).start_seconds

(***************************************************************************)
(* Further properties of the resolution specification.                     *)
(***************************************************************************)
\* the measure of nugget k that _measure_offset looks up first and does not find
MissingMeasure(k) ==
    IF PartMeasure(score.part, nuggets[k].location.startMeasure) = None
    THEN nuggets[k].location.startMeasure
    ELSE nuggets[k].location.endMeasure

\* C16: a nugget whose start or end measure is not in the part makes the
\* resolution fail and return no document, whatever was resolved before it;
\* when it is the first nugget that fails, the error is the measure-not-found
\* one and names the missing measure.
C16_MeasureNotFound ==
    IsSome(resolved) =>
      /\ (\E k \in 1..Len(nuggets) : ~MeasuresExist(k))
           => (~Get(resolved).ok /\ Get(resolved).nuggets = <<>>)
      /\ (FirstFailing # 0 /\ ~MeasuresExist(FirstFailing))
           => /\ Get(resolved).error = "measure not found"
              /\ Get(resolved).measure = MissingMeasure(FirstFailing)
      /\ Get(resolved).error = "measure not found"
           => (FirstFailing # 0 /\ ~MeasuresExist(FirstFailing))

\* a first nugget resolved, then one whose end measure is missing
C16_Witness ==
    /\ IsSome(resolved) /\ ~Get(resolved).ok
    /\ FirstFailing = 2
    /\ Get(resolved).error = "measure not found"
    /\ Get(resolved).measure = 3
    /\ nuggets[2].location.startMeasure = 1

\* a nugget whose start measure is missing
C16_WitnessStart ==
    /\ IsSome(resolved) /\ ~Get(resolved).ok
    /\ Get(resolved).error = "measure not found"
    /\ Get(resolved).measure = 4

(***************************************************************************)
(* Further properties of the alignment specification.                      *)
(***************************************************************************)
\* a byStaff run kept a match whose staff has no entry in the staff-to-hand
\* mapping while the cross-staff fallback is not allowed
UnresolvableStaff ==
    /\ Requested.mode = "byStaff"
    /\ Get(alignment).mode_used = "byStaff"
    /\ Requested.crossStaffHandling # "allow"
    /\ \E i \in 1..Len(FullNotes) :
         /\ IsMatched(i)
         /\ Get(Get(alignment).score_matches[i]).staff \notin DOMAIN Requested.staffToHandDefault

\* C17: alignment returns no hands map when a matched event's staff has no
\* entry in the staff-to-hand mapping and the cross-staff fallback is not
\* allowed.
C17_UnmappedStaffFails ==
    IsSome(alignment) => ~UnresolvableStaff

\* C18: in the score-matching modes matchedNotes counts the notes with
\* confidence >= 0.4, which are the notes with a matched score event;
\* matchRate is matchedNotes / totalNotes, between 0 and 1, and 0 for an
\* empty note list.
C18_MatchRate ==
    (IsSome(alignment) /\ Get(alignment).mode_used \in {"none", "byStaff"}) =>
      LET quality == Get(alignment).hands_map.quality
          rate == quality.matchRate
      IN /\ quality.matchedNotes
              = Cardinality({i \in 1..Len(HandEntries) : HandEntries[i].confidence >= 4})
         /\ quality.matchedNotes = Cardinality({i \in 1..Len(FullNotes) : IsMatched(i)})
         /\ 0 <= quality.matchedNotes /\ quality.matchedNotes <= quality.totalNotes
         /\ rate[2] > 0
         /\ quality.totalNotes > 0 => rate[1] * quality.totalNotes = quality.matchedNotes * rate[2]
         /\ 0 <= rate[1] /\ rate[1] <= rate[2]
         /\ quality.totalNotes = 0 => rate[1] = 0

\* a byStaff run of three notes: one in the lowest tier, one without a match
C18_Witness ==
    /\ IsSome(alignment)
    /\ Get(alignment).mode_used = "byStaff"
    /\ Len(FullNotes) = 3
    /\ Get(alignment).hands_map.quality.matchedNotes = 2
    /\ \E i, j \in 1..3 : HandEntries[i].confidence = 4 /\ ~IsMatched(j)

\* an empty note list was aligned
C18_WitnessEmpty ==
    /\ IsSome(alignment)
    /\ Get(alignment).mode_used = "none"
    /\ FullNotes = <<>>

\* the global shift of the run and the start times of its notes
RunShift == GlobalShift(FullNotes, score_events)
RunStarts == [i \in 1..Len(FullNotes) |-> FullNotes[i].startTime]

\* the score events of the pitch of note i within the tolerance of note i,
\* for the global shift `shift`
Candidates(i, shift) ==
    {j \in 1..Len(score_events) :
        /\ score_events[j].pitch = FullNotes[i].pitch
        /\ 4 * ScaledDelta(score_events[j], FullNotes[i], shift)
             <= Tolerance4(RunStarts, i) * shift[2]}

\* the candidates of note i at the least distance
Nearest(i, shift) ==
    LET candidates == Candidates(i, shift)
    IN {j \in candidates :
          \A k \in candidates :
            ScaledDelta(score_events[j], FullNotes[i], shift)
              <= ScaledDelta(score_events[k], FullNotes[i], shift)}

\* C19: when score matching runs, the event matched to a note is the first
\* in list order among the same-pitch events at the least distance within the
\* tolerance; a note without such an event has no match, and in the
\* score-matching modes hand Unknown and confidence 0.
C19_BestMatch ==
    (IsSome(alignment) /\ Requested.mode # "pitchSplit") =>
      LET shift == RunShift
      IN \A i \in 1..Len(FullNotes) :
           IF Candidates(i, shift) = {}
           THEN /\ ~IsMatched(i)
                /\ Get(alignment).mode_used # "pitchSplit"
                     => (HandEntries[i].hand = "Unknown" /\ HandEntries[i].confidence = 0)
           ELSE /\ IsMatched(i)
                /\ Get(Get(alignment).score_matches[i]) = score_events[SetMin(Nearest(i, shift))]

\* a note with two events of its pitch at the same least distance, matched to
\* the first, and another note without any event within tolerance
C19_Witness ==
    /\ IsSome(alignment)
    /\ Get(alignment).mode_used = "byStaff"
    /\ \E i, j \in 1..Len(FullNotes) :
         /\ Cardinality(Nearest(i, RunShift)) = 2
         /\ score_events[1] # score_events[2]
         /\ Get(Get(alignment).score_matches[i]) = score_events[1]
         /\ Candidates(j, RunShift) = {}
         /\ HandEntries[j].hand = "Unknown"

(***************************************************************************)
(* Shift specification: align_notes on tracks whose notes lie up to 2 s    *)
(* behind the score.                                                       *)
(***************************************************************************)
\* Performance notes at 0 s, at 2 s and one microsecond before 2 s.
ShiftNoteDomain ==
    {Note(p, s, s + 250000) : p \in {59, 60}, s \in {0, 1999999, 2000000}}

InitShift ==
    /\ pc = "decoded"
    /\ midi_notes \in {s \in SeqsUpTo(ShiftNoteDomain, MaxNotes) :
                          IsInjective(s) /\ s = SortNotes(s)}
    /\ note_sequences = [NoTracks EXCEPT !.full = Some(midi_to_note_sequence(midi_notes))]
    /\ extracted = None
    /\ score_events \in EventLists
    /\ alignment = None
    /\ score = NoScore
    /\ nuggets = <<>>
    /\ resolved = None
    /\ tempo_marks = <<>>
    /\ midi_tempo_changes = None
    /\ midi_tempos = None
    /\ seconds_at = None

NextShift == AlignNotes \/ SplitByHandsMap

SpecShift == InitShift /\ [][NextShift]_vars

\* the deltas of the same-pitch pairs among the first min(20, N) notes and the
\* first min(100, M) score events
SampledDeltas ==
    ValidDeltas(SubSeq(FullNotes, 1, Min(Len(FullNotes), SampleSize)),
                SubSeq(score_events, 1, Min(Len(score_events), SearchWindow)))

\* the middle element of the sorted deltas
MedianDelta == SortInts(SampledDeltas)[(Len(SampledDeltas) \div 2) + 1]

RECURSIVE WithinOf(_, _, _)
\* the elements of s at most `width` away from `center`
WithinOf(s, center, width) ==
    IF s = <<>> THEN <<>>
    ELSE IF Abs(Head(s) - center) <= width
         THEN <<Head(s)>> \o WithinOf(Tail(s), center, width)
         ELSE WithinOf(Tail(s), center, width)

\* C20: when score matching runs, the global shift is the mean of the sampled
\* deltas that lie within 2.0 s of the median delta, a delta exactly 2.0 s
\* away counting as within, and 0 when there is no delta.
C20_ShiftInclusive ==
    (IsSome(alignment) /\ Requested.mode # "pitchSplit") =>
      IF SampledDeltas = <<>> THEN RunShift[1] = 0
      ELSE LET cluster == WithinOf(SampledDeltas, MedianDelta, ClusterWindow)
           IN RunShift[1] * Len(cluster) = SumSeq(cluster) * RunShift[2]

(***************************************************************************)
(* Tolerance specification: align_notes on chords and on notes 0.1 s and   *)
(* 0.4 s apart, against score events an eighth note (0.25 s) apart.        *)
(***************************************************************************)
ToleranceNoteDomain ==
    {Note(p, s, s + 250000) : p \in {59, 60}, s \in {0, 400000, 500000}}

\* Score events of measure 1 on staff 1, on beat 1 and an eighth note later.
ToleranceEventDomain ==
    {ScoreEvent(p, 1, 1, 1, off, AlignTempoMap) : p \in {59, 60}, off \in {0, 1}}

InitTolerance ==
    /\ pc = "decoded"
    /\ midi_notes \in {s \in SeqsUpTo(ToleranceNoteDomain, MaxNotes) :
                          IsInjective(s) /\ s = SortNotes(s)}
    /\ note_sequences = [NoTracks EXCEPT !.full = Some(midi_to_note_sequence(midi_notes))]
    /\ extracted = None
    /\ score_events \in {s \in SeqsUpTo(ToleranceEventDomain, MaxEvents) :
                             /\ IsInjective(s)
                             /\ \A i \in 1..(Len(s) - 1) : EventKeyLE(s[i], s[i + 1])}
    /\ alignment = None
    /\ score = NoScore
    /\ nuggets = <<>>
    /\ resolved = None
    /\ tempo_marks = <<>>
    /\ midi_tempo_changes = None
    /\ midi_tempos = None
    /\ seconds_at = None

NextTolerance == AlignNotes \/ SplitByHandsMap

SpecTolerance == InitTolerance /\ [][NextTolerance]_vars

\* the strictly positive gaps between the start of note i and the starts of
\* the notes just before and just after it
PositiveGaps(i) ==
    {g \in {RunStarts[i] - RunStarts[k] : k \in {i - 1} \cap (1..Len(RunStarts))}
             \cup {RunStarts[k] - RunStarts[i] : k \in {i + 1} \cap (1..Len(RunStarts))} :
        g > 0}

\* four times max(0.08, 0.25 * localIOI) for note i, localIOI being the least
\* positive gap, or 0.5 s without one
StatedTolerance4(i) ==
    Max(4 * MinTolerance,
        IF PositiveGaps(i) = {} THEN DefaultIoi ELSE SetMin(PositiveGaps(i)))

\* C21: when score matching runs, a note is matched exactly when some event
\* of its pitch lies within max(0.08, 0.25 * localIOI) of it after the shift,
\* localIOI being the smaller strictly positive gap to the neighbouring note
\* starts and 0.5 s when there is none.
C21_Tolerance ==
    (IsSome(alignment) /\ Requested.mode # "pitchSplit") =>
      LET shift == RunShift
      IN \A i \in 1..Len(FullNotes) :
           IsMatched(i) <=>
             \E j \in 1..Len(score_events) :
               /\ score_events[j].pitch = FullNotes[i].pitch
               /\ 4 * ScaledDelta(score_events[j], FullNotes[i], shift)
                    <= StatedTolerance4(i) * shift[2]

\* a note whose only neighbour is a chord-mate is matched at a distance above
\* 0.08 s, within a quarter of the default interval
C21_Witness ==
    /\ IsSome(alignment) /\ Requested.mode # "pitchSplit"
    /\ \E i \in 1..Len(FullNotes) :
         /\ Len(FullNotes) >= 2
         /\ PositiveGaps(i) = {}
         /\ IsMatched(i)
         /\ MatchedDelta(i) > MinTolerance * RunShift[2]

\* a note between two neighbours at different positive gaps is matched
C21_WitnessGaps ==
    /\ IsSome(alignment) /\ Requested.mode # "pitchSplit"
    /\ Len(FullNotes) = 3
    /\ Cardinality(PositiveGaps(2)) = 2
    /\ IsMatched(2)


\* the tier stated for a matched delta d (scaled by den): 1.0 up to 0.03 s,
\* 0.7 up to 0.08 s, 0.4 beyond
StatedTier(d, den) ==
    IF d <= TierFull * den THEN ConfFull
    ELSE IF d > TierFull * den /\ d <= TierGood * den THEN ConfGood
    ELSE ConfWeak

\* C22: when the score-matching result is kept, an unmatched note has
\* confidence 0.0 and a matched note has the tier of its matched delta (1.0
\* up to 0.03 s, 0.7 up to 0.08 s, 0.4 beyond), lowered to at most 0.4 when
\* the note took the cross-staff pitch fallback; so every confidence is one
\* of 0.0, 0.4, 0.7, 1.0 and is 0.0 exactly for the unmatched notes.
C22_Tiers ==
    (IsSome(alignment) /\ Get(alignment).mode_used # "pitchSplit") =>
      LET shift == RunShift
      IN \A i \in 1..Len(HandEntries) :
           LET confidence == HandEntries[i].confidence
           IN /\ confidence \in {0, ConfWeak, ConfGood, ConfFull}
              /\ (confidence = 0) <=> ~IsMatched(i)
              /\ IsMatched(i) =>
                   LET tier == StatedTier(ScaledDelta(Get(Get(alignment).score_matches[i]),
                                                      FullNotes[i], shift), shift[2])
                   IN confidence = IF TookCrossStaffFallback(i)
                                   THEN Min(tier, ConfWeak) ELSE tier

\* an uncapped matched note more than 0.08 s from its event reports 0.4, in
\* a run that also has a note in the full tier
C22_Witness ==
    /\ IsSome(alignment) /\ Get(alignment).mode_used # "pitchSplit"
    /\ \E i, j \in 1..Len(HandEntries) :
         /\ IsMatched(i) /\ ~TookCrossStaffFallback(i)
         /\ MatchedDelta(i) > TierGood * RunShift[2]
         /\ HandEntries[i].confidence = ConfWeak
         /\ IsMatched(j) /\ HandEntries[j].confidence = ConfFull

\* an uncapped matched note between 0.03 s and 0.08 s from its event reports 0.7
C22_WitnessGood ==
    /\ IsSome(alignment) /\ Get(alignment).mode_used # "pitchSplit"
    /\ \E i \in 1..Len(HandEntries) :
         /\ IsMatched(i) /\ ~TookCrossStaffFallback(i)
         /\ MatchedDelta(i) > TierFull * RunShift[2]
         /\ HandEntries[i].confidence = ConfGood

\* a run with an unmatched note next to a note in the full tier
C22_WitnessUnmatched ==
    /\ IsSome(alignment) /\ Get(alignment).mode_used # "pitchSplit"
    /\ \E i, j \in 1..Len(HandEntries) :
         /\ ~IsMatched(i)
         /\ IsMatched(j) /\ HandEntries[j].confidence = ConfFull


\* the staff of the event matched to note i
MatchedStaff(i) == Get(Get(alignment).score_matches[i]).staff

\* the tier of note i's matched delta
MatchedTier(i) ==
    LET shift == RunShift
    IN StatedTier(ScaledDelta(Get(Get(alignment).score_matches[i]), FullNotes[i], shift),
                  shift[2])

\* C23: when the byStaff result is kept, a matched note on a mapped staff
\* has the mapped hand; on an unmapped staff with crossStaffHandling = allow
\* it has RH for pitch >= 60 and LH otherwise with confidence at most 0.4; on
\* an unmapped staff with discourage it has hand Unknown and its tiered
\* confidence; in mode none every note has hand Unknown.
C23_HandAssignment ==
    IsSome(alignment) =>
      /\ Get(alignment).mode_used = "byStaff" =>
           \A i \in 1..Len(HandEntries) :
             IsMatched(i) =>
               IF MatchedStaff(i) \in DOMAIN Requested.staffToHandDefault
               THEN HandEntries[i].hand = Requested.staffToHandDefault[MatchedStaff(i)]
               ELSE IF Requested.crossStaffHandling = "allow"
                    THEN /\ HandEntries[i].hand =
                              (IF FullNotes[i].pitch >= CrossStaffPitch THEN "RH" ELSE "LH")
                         /\ HandEntries[i].confidence = Min(MatchedTier(i), ConfWeak)
                    ELSE /\ HandEntries[i].hand = "Unknown"
                         /\ HandEntries[i].confidence = MatchedTier(i)
      /\ Requested.mode = "none" =>
           \A i \in 1..Len(HandEntries) : HandEntries[i].hand = "Unknown"

\* a kept byStaff run under allow with a full-tier match on an unmapped staff,
\* capped to 0.4 and given LH by its pitch
C23_Witness ==
    /\ IsSome(alignment) /\ Get(alignment).mode_used = "byStaff"
    /\ Requested.crossStaffHandling = "allow"
    /\ \E i \in 1..Len(HandEntries) :
         /\ IsMatched(i)
         /\ MatchedStaff(i) \notin DOMAIN Requested.staffToHandDefault
         /\ MatchedTier(i) = ConfFull
         /\ FullNotes[i].pitch < CrossStaffPitch
         /\ HandEntries[i].hand = "LH"
         /\ HandEntries[i].confidence = ConfWeak

\* a kept byStaff run with a matched note on the staff mapped to LH
C23_WitnessMapped ==
    /\ IsSome(alignment) /\ Get(alignment).mode_used = "byStaff"
    /\ \E i \in 1..Len(HandEntries) :
         /\ IsMatched(i)
         /\ MatchedStaff(i) \in DOMAIN Requested.staffToHandDefault
         /\ HandEntries[i].hand = "LH"

\* a kept byStaff run under discourage with a matched note on an unmapped staff
C23_WitnessDiscourage ==
    /\ IsSome(alignment) /\ Get(alignment).mode_used = "byStaff"
    /\ Requested.crossStaffHandling = "discourage"
    /\ \E i \in 1..Len(HandEntries) :
         /\ IsMatched(i)
         /\ MatchedStaff(i) \notin DOMAIN Requested.staffToHandDefault
         /\ HandEntries[i].hand = "Unknown"
         /\ HandEntries[i].confidence = ConfFull


\* the middle element of the pitch-sorted list, the lower one of the two
\* middle elements when the number of notes is even
LowerMedianPitch(notes) ==
    SortInts([i \in 1..Len(notes) |-> notes[i].pitch])[(Len(notes) + 1) \div 2]

\* C24: an array produced by the pitch split has one entry per note, with
\* confidence 0.2 and hand RH exactly for the notes whose pitch is at least
\* the lower median of the pitches (LH for the others); no notes give an
\* empty array.
C24_LowerMedianSplit ==
    (IsSome(alignment) /\ Get(alignment).mode_used = "pitchSplit") =>
      /\ Len(HandEntries) = Len(FullNotes)
      /\ \A i \in 1..Len(HandEntries) :
           /\ HandEntries[i].confidence = ConfPitchSplit
           /\ HandEntries[i].hand =
                IF FullNotes[i].pitch >= LowerMedianPitch(FullNotes) THEN "RH" ELSE "LH"


\* the note starts at or after the start of the window and strictly before
\* its end
StartsInWindow(note, start, end) == start <= note.startTime /\ note.startTime < end

\* C25: on a sorted track the notes that start inside a nugget's window sit at
\* contiguous indices; a resolved range holds all of them, and every other
\* note of the range shares its onset (within EPS) with the first or the last
\* of them; in particular a note that starts exactly at the window's end is in
\* the range only when it shares its onset with the last note of the window.
C25_WindowSelection ==
    ResolvedOk =>
      \A k \in 1..Len(nuggets), t \in TrackNames :
        HasRange(k, t) =>
          LET notes == TrackNotes(t)
              start == WindowStart(k)
              end == WindowEnd(k)
              inside == {i \in 1..Len(notes) : StartsInWindow(notes[i], start, end)}
              first == RangeOf(k, t).noteStartIndex + 1
              last == RangeOf(k, t).noteEndIndex + 1
          IN /\ inside # {}
             /\ \A i \in SetMin(inside)..SetMax(inside) : i \in inside
             /\ first <= SetMin(inside) /\ SetMax(inside) <= last
             /\ \A i \in first..(SetMin(inside) - 1) :
                  SameOnset(notes[i], notes[SetMin(inside)])
             /\ \A i \in (SetMax(inside) + 1)..last :
                  SameOnset(notes[i], notes[SetMax(inside)])
             /\ \A i \in first..last :
                  notes[i].startTime = end
                  => SameOnset(notes[i], notes[SetMax(inside)])

\* a track has a note that starts exactly at the end of a window and is left
\* out of the range, the last note of the window starting well before it
C25_Witness ==
    /\ ResolvedOk
    /\ \E k \in 1..Len(nuggets), t \in TrackNames :
         /\ HasRange(k, t)
         /\ \E i \in 1..Len(TrackNotes(t)) :
              /\ TrackNotes(t)[i].startTime = WindowEnd(k)
              /\ i > RangeOf(k, t).noteEndIndex + 1

\* a note that starts exactly at the end of a window is in the range, behind a
\* note that starts within EPS before the end
C25_WitnessShared ==
    /\ ResolvedOk
    /\ \E k \in 1..Len(nuggets), t \in TrackNames :
         /\ HasRange(k, t)
         /\ TrackNotes(t)[RangeOf(k, t).noteEndIndex + 1].startTime = WindowEnd(k)


(***************************************************************************)
(* nuggets_extract.py: extract_nuggets and extract_assemblies              *)
(***************************************************************************)
DefaultSignature == 2       \* the signature (4, 4) used when the part has none: beat of a quarter

\* _measure_offset of nuggets_extract.py: Optional offset, None when it raises
\* NuggetExtractError("Measure ... not found")
nuggets_extract_measure_offset(part, measure_number, beat) ==
    LET measure == PartMeasure(part, measure_number)
    IN IF measure = None THEN None
       ELSE LET own == Get(measure).timeSignature
                time_sig == IF own # None THEN own ELSE FirstTimeSignature(part)
                beat_length == IF time_sig # None THEN Get(time_sig) ELSE DefaultBeatLength
            IN Some(Get(measure).offset + (beat - 1) * beat_length)

\* the selection shared by _tempos_for_slice and _time_signatures_for_slice:
\* entries are <<offset, value>>; the result is a sequence of <<time, value>>
EntriesForSlice(entries, default_value, boundaries, start_offset, end_offset) ==
    LET items == IF entries = <<>> THEN <<<<0, default_value>>>> ELSE SortTempoMap(entries)
        before == {k \in 1..Len(items) : items[k][1] < start_offset}
        last_before == IF before = {} THEN <<>> ELSE <<items[SetMax(before)]>>
        in_range == SelectSeq(items, LAMBDA item :
                                start_offset <= item[1] /\ item[1] < end_offset)
        selected == IF last_before \o in_range = <<>>
                    THEN <<<<start_offset, default_value>>>>
                    ELSE last_before \o in_range
        start_seconds == nuggets_extract_offset_to_seconds(start_offset, boundaries)
    IN [k \in 1..Len(selected) |->
          <<Max(0, nuggets_extract_offset_to_seconds(selected[k][1], boundaries)
                     - start_seconds),
            selected[k][2]>>]

\* _tempos_for_slice; marks are the <<offset, number>> of the score's
\* metronome marks, a mark without number having number 0
tempos_for_slice(marks, boundaries, start_offset, end_offset) ==
    LET numbered == [k \in 1..Len(marks) |->
                       <<marks[k][1], IF marks[k][2] = 0 THEN DefaultTempo ELSE marks[k][2]>>]
        chosen == EntriesForSlice(numbered, DefaultTempo, boundaries, start_offset, end_offset)
    IN [k \in 1..Len(chosen) |-> [time |-> chosen[k][1], qpm |-> chosen[k][2]]]

\* the time signatures of the part with their offsets, in score order
SignaturesOf(part) ==
    LET signed == SelectSeq(part, LAMBDA measure : measure.timeSignature # None)
    IN [k \in 1..Len(signed) |-> <<signed[k].offset, Get(signed[k].timeSignature)>>]

\* _time_signatures_for_slice; a signature is held as its beat length
time_signatures_for_slice(part, boundaries, start_offset, end_offset) ==
    LET chosen == EntriesForSlice(SignaturesOf(part), DefaultSignature, boundaries,
                                  start_offset, end_offset)
    IN [k \in 1..Len(chosen) |-> [time |-> chosen[k][1], signature |-> chosen[k][2]]]

\* the order of note_sequences.items()
TrackOrder == <<"full", "rh", "lh">>

\* the files written for one nugget or assembly: one per track, with the
\* window the loop computed for it
SliceFiles(id, part, marks, boundaries, sequences, start_offset, end_offset) ==
    LET start_seconds == nuggets_extract_offset_to_seconds(start_offset, boundaries)
        end_seconds == nuggets_extract_offset_to_seconds(end_offset, boundaries)
        tracks == SelectSeq(TrackOrder, LAMBDA t : sequences[t] # None)
        sliced(t) == ExtractSlice(Get(sequences[t]), start_seconds, end_seconds)
    IN [k \in 1..Len(tracks) |->
          [id |-> id, track |-> tracks[k],
           start_offset |-> start_offset, end_offset |-> end_offset,
           start_seconds |-> start_seconds, end_seconds |-> end_seconds,
           ns |-> [notes |-> sliced(tracks[k]).notes,
                   totalTime |-> sliced(tracks[k]).totalTime,
                   tempos |-> tempos_for_slice(marks, boundaries, start_offset, end_offset),
                   timeSignatures |->
                       time_signatures_for_slice(part, boundaries, start_offset, end_offset)]]]

\* A loop that ends at the first nugget it cannot extract.
StopAtSkipped(todo) == <<>>

\* continue: the nuggets left after one that is skipped
AfterSkipped(todo) == Tail(todo)

RECURSIVE ExtractLoop(_, _, _, _, _, _)
\* the loop of extract_nuggets; a nugget is [id, location], both Optional
ExtractLoop(part, marks, boundaries, todo, sequences, files) ==
    IF todo = <<>> THEN files
    ELSE LET nugget == Head(todo)
         IN IF nugget.location = None \/ nugget.id = None
            THEN ExtractLoop(part, marks, boundaries, AfterSkipped(todo), sequences, files)
            ELSE LET loc == Get(nugget.location)
                     start_offset == nuggets_extract_measure_offset(part, loc.startMeasure,
                                                                    loc.startBeat)
                     end_offset == nuggets_extract_measure_offset(part, loc.endMeasure,
                                                                  loc.endBeat)
                 IN IF start_offset = None \/ end_offset = None
                    THEN ExtractLoop(part, marks, boundaries, AfterSkipped(todo), sequences,
                                     files)
                    ELSE ExtractLoop(part, marks, boundaries, Tail(todo), sequences,
                                     files \o SliceFiles(Get(nugget.id), part, marks,
                                                         boundaries, sequences,
                                                         Get(start_offset), Get(end_offset)))

\* extract_nuggets: the files written to the nuggets directory, in order
extract_nuggets(the_score, marks, the_nuggets, sequences) ==
    ExtractLoop(the_score.part, marks, tempo_boundaries(the_score.boundaries),
                the_nuggets, sequences, <<>>)

\* tuple comparison of (measure, beat) keys
KeyLE(a, b) == a[1] < b[1] \/ (a[1] = b[1] /\ a[2] <= b[2])

get_start(loc) == <<loc.startMeasure, loc.startBeat>>
get_end(loc) == <<loc.endMeasure, loc.endBeat>>

\* nugget_by_id.get(nid): the last nugget of the list with that id, if any
NuggetById(the_nuggets, nid) ==
    LET found == {k \in 1..Len(the_nuggets) : the_nuggets[k].id = Some(nid)}
    IN IF found = {} THEN None ELSE Some(the_nuggets[SetMax(found)])

\* the locations of the referenced nuggets that exist and have a location
AssemblyLocations(the_nuggets, nugget_ids) ==
    LET usable == SelectSeq(nugget_ids, LAMBDA nid :
                              /\ NuggetById(the_nuggets, nid) # None
                              /\ Get(NuggetById(the_nuggets, nid)).location # None)
    IN [k \in 1..Len(usable) |-> Get(Get(NuggetById(the_nuggets, usable[k])).location)]

\* get_start(sorted(locations, key=get_start)[0])
FirstStart(locations) ==
    get_start(locations[CHOOSE k \in 1..Len(locations) :
                          \A j \in 1..Len(locations) :
                            KeyLE(get_start(locations[k]), get_start(locations[j]))])

\* get_end(sorted(locations, key=get_end)[-1])
LastEnd(locations) ==
    get_end(locations[CHOOSE k \in 1..Len(locations) :
                        \A j \in 1..Len(locations) :
                          KeyLE(get_end(locations[j]), get_end(locations[k]))])

RECURSIVE AssemblyLoop(_, _, _, _, _, _, _)
\* the loop of extract_assemblies; an assembly is [id, nuggetIds], both Optional
AssemblyLoop(part, marks, boundaries, todo, the_nuggets, sequences, files) ==
    IF todo = <<>> THEN files
    ELSE LET assembly == Head(todo)
             rest == Tail(todo)
         IN IF assembly.id = None \/ assembly.nuggetIds = None
            THEN AssemblyLoop(part, marks, boundaries, rest, the_nuggets, sequences, files)
            ELSE LET locations == AssemblyLocations(the_nuggets, Get(assembly.nuggetIds))
                 IN IF Get(assembly.nuggetIds) = <<>> \/ locations = <<>>
                    THEN AssemblyLoop(part, marks, boundaries, rest, the_nuggets, sequences,
                                      files)
                    ELSE LET start_offset ==
                                 nuggets_extract_measure_offset(part, FirstStart(locations)[1],
                                                                FirstStart(locations)[2])
                             end_offset ==
                                 nuggets_extract_measure_offset(part, LastEnd(locations)[1],
                                                                LastEnd(locations)[2])
                         IN IF start_offset = None \/ end_offset = None
                            THEN AssemblyLoop(part, marks, boundaries, rest, the_nuggets,
                                              sequences, files)
                            ELSE AssemblyLoop(part, marks, boundaries, rest, the_nuggets,
                                              sequences,
                                              files \o SliceFiles(Get(assembly.id), part, marks,
                                                                  boundaries, sequences,
                                                                  Get(start_offset),
                                                                  Get(end_offset)))

\* extract_assemblies: the files written to the assemblies directory, in order
extract_assemblies(the_score, marks, assemblies, the_nuggets, sequences) ==
    AssemblyLoop(the_score.part, marks, tempo_boundaries(the_score.boundaries),
                 assemblies, the_nuggets, sequences, <<>>)

(***************************************************************************)
(* Extraction specification: extract_nuggets, then extract_assemblies, on  *)
(* a score with a tempo change and on one with a change of time signature. *)
(***************************************************************************)
MaxAssemblies == 1

\* notes at 0.0 s, 2.5 s and 6.5 s
ExtractNoteDomain ==
    {Note(60, 0, 500000), Note(64, 2500000, 3000000), Note(67, 6500000, 7000000)}

\* Two measures of 4/4, 120 bpm in the first and 60 bpm in the second.
TempoChangeScore ==
    [part |-> <<Measure(1, 0, Some(2)), Measure(2, 8, None)>>,
     marks |-> <<<<0, 120>>, <<8, 60>>>>,
     boundaries |-> <<<<0, Some(8), 120>>, <<8, Some(16), 60>>>>]

\* A measure of 2/2 (beat of a half note), then three measures of 4/4, the
\* last two without a signature of their own, at a constant 120 bpm.
MeterChangeScore ==
    [part |-> <<Measure(1, 0, Some(4)), Measure(2, 8, Some(2)), Measure(3, 16, None),
                Measure(4, 24, None)>>,
     marks |-> <<<<0, 120>>>>,
     boundaries |-> <<<<0, Some(32), 120>>>>]

ExtractScores == {TempoChangeScore, MeterChangeScore}

\* windows that start before, at and after the change of measure 2, windows
\* in the unsigned measures 3 and 4, and one that ends in a missing measure
ExtractLocations ==
    {Location(1, 1, 2, 1), Location(2, 1, 2, 3), Location(1, 3, 2, 3),
     Location(3, 1, 3, 4), Location(3, 2, 4, 1), Location(1, 1, 5, 1)}

\* a nugget as authored: complete, without its id, or without its location
NuggetForms ==
    {<<"complete", loc>> : loc \in ExtractLocations}
        \cup {<<"no id", Location(1, 1, 2, 1)>>, <<"no location", Location(1, 1, 2, 1)>>}

\* nugget k of a list has id k, unless it lacks its id
ExtractNuggetLists ==
    {[k \in 1..Len(forms) |->
         [id |-> IF forms[k][1] = "no id" THEN None ELSE Some(k),
          location |-> IF forms[k][1] = "no location" THEN None ELSE Some(forms[k][2])]] :
        forms \in SeqsUpTo(NuggetForms, MaxNuggets)}

\* nuggetIds of an assembly: absent, empty, the nugget ids 1 and 2 in both
\* orders, and an unknown id before a known one
AssemblyForms == {None, Some(<<>>), Some(<<1, 2>>), Some(<<2, 1>>), Some(<<9, 1>>)}

\* assembly k of a list has id k
AssemblyLists ==
    {[k \in 1..Len(forms) |-> [id |-> Some(k), nuggetIds |-> forms[k]]] :
        forms \in SeqsUpTo(AssemblyForms, MaxAssemblies)}

\* the tracks of a run in pitchSplit mode
PitchSplitTracks(notes) ==
    LET full == midi_to_note_sequence(notes)
        hands == pitch_split(full.notes)
        split == split_note_sequence(full, [i \in 1..Len(hands) |->
                                              [index |-> i - 1, hand |-> hands[i].hand]])
    IN [full |-> Some(full), rh |-> split[1], lh |-> split[2]]

InitExtract ==
    /\ pc = "split"
    /\ midi_notes \in {s \in SeqsUpTo(ExtractNoteDomain, MaxNotes) :
                          IsInjective(s) /\ s = SortNotes(s)}
    /\ note_sequences = PitchSplitTracks(midi_notes)
    /\ extracted = None
    /\ score_events = <<>>
    /\ alignment = None
    /\ \E s \in ExtractScores :
         /\ score = [part |-> s.part, boundaries |-> s.boundaries]
         /\ tempo_marks = s.marks
    /\ nuggets \in ExtractNuggetLists
    /\ resolved = None
    /\ midi_tempo_changes = None
    /\ midi_tempos = None
    /\ seconds_at = None

ExtractNuggets ==
    /\ pc = "split"
    /\ extracted' = Some([nugget_files |->
                              extract_nuggets(score, tempo_marks, nuggets, note_sequences),
                          assemblies |-> <<>>,
                          assembly_files |-> <<>>])
    /\ pc' = "nuggets"
    /\ UNCHANGED <<midi_notes, note_sequences, alignVars, resolveVars, tempoVars>>

ExtractAssemblies ==
    /\ pc = "nuggets"
    /\ \E assemblies \in AssemblyLists :
         extracted' = Some([Get(extracted) EXCEPT
                              !.assemblies = assemblies,
                              !.assembly_files =
                                  extract_assemblies(score, tempo_marks, assemblies, nuggets,
                                                     note_sequences)])
    /\ pc' = "assemblies"
    /\ UNCHANGED <<midi_notes, note_sequences, alignVars, resolveVars, tempoVars>>

NextExtract == ExtractNuggets \/ ExtractAssemblies

SpecExtract == InitExtract /\ [][NextExtract]_vars

\* the files of the nuggets directory and of the assemblies directory
NuggetFiles == Get(extracted).nugget_files
AssemblyFiles == Get(extracted).assembly_files


\* the entries stated for a slice: the last entry at or before the window
\* start, at time 0, then the entries strictly inside the window, each at its
\* time less the time of the window start; entries are <<offset, value>>
StatedSliceEntries(entries, boundaries, start_offset, end_offset) ==
    LET at_or_before == {k \in 1..Len(entries) : entries[k][1] <= start_offset}
        inside == SelectSeq(entries, LAMBDA e : start_offset < e[1] /\ e[1] < end_offset)
        start_seconds == nuggets_extract_offset_to_seconds(start_offset, boundaries)
    IN (IF at_or_before = {} THEN <<>> ELSE <<<<0, entries[SetMax(at_or_before)][2]>>>>)
       \o [k \in 1..Len(inside) |->
             <<nuggets_extract_offset_to_seconds(inside[k][1], boundaries) - start_seconds,
               inside[k][2]>>]

\* C26: every file written for a nugget or an assembly lists, as tempos and
\* as time signatures, the single last entry at or before the window start at
\* time 0 followed by the entries strictly inside the window at their time
\* from the window start; so at most one entry is at time 0.
C26_SliceEntries ==
    IsSome(extracted) =>
      \A f \in {NuggetFiles[k] : k \in 1..Len(NuggetFiles)}
                 \cup {AssemblyFiles[k] : k \in 1..Len(AssemblyFiles)} :
        LET boundaries == tempo_boundaries(score.boundaries)
            tempos == StatedSliceEntries(tempo_marks, boundaries, f.start_offset, f.end_offset)
            signatures == StatedSliceEntries(SignaturesOf(score.part), boundaries,
                                             f.start_offset, f.end_offset)
        IN /\ f.ns.tempos = [k \in 1..Len(tempos) |->
                               [time |-> tempos[k][1], qpm |-> tempos[k][2]]]
           /\ f.ns.timeSignatures = [k \in 1..Len(signatures) |->
                                       [time |-> signatures[k][1],
                                        signature |-> signatures[k][2]]]
           /\ Cardinality({k \in 1..Len(f.ns.tempos) : f.ns.tempos[k].time = 0}) <= 1
           /\ Cardinality({k \in 1..Len(f.ns.timeSignatures) :
                             f.ns.timeSignatures[k].time = 0}) <= 1


\* the beat length of the time signature in effect at a measure: that of the
\* last signature at or before it in the part, one quarter when there is none
EffectiveBeatLength(part, measure_number) ==
    LET at == CHOOSE i \in 1..Len(part) : part[i].number = measure_number
        signed == {i \in 1..at : part[i].timeSignature # None}
    IN IF signed = {} THEN DefaultBeatLength ELSE Get(part[SetMax(signed)].timeSignature)

\* measure.globalOffset + (beat - 1) * beatLength of the signature in effect
StatedOffset(part, measure_number, beat) ==
    Get(PartMeasure(part, measure_number)).offset
        + (beat - 1) * EffectiveBeatLength(part, measure_number)

\* C27: the window of every extracted nugget starts and ends at
\* measure.globalOffset + (beat - 1) * beatLength, beatLength being the beat
\* length of the time signature in effect at the measure (for a measure
\* without a signature of its own, the last signature before it).
C27_EffectiveSignature ==
    IsSome(extracted) =>
      \A k \in 1..Len(NuggetFiles) :
        LET f == NuggetFiles[k]
            loc == Get(nuggets[f.id].location)
        IN /\ f.start_offset = StatedOffset(score.part, loc.startMeasure, loc.startBeat)
           /\ f.end_offset = StatedOffset(score.part, loc.endMeasure, loc.endBeat)


\* the boundary list is contiguous from offset 0 with its last segment open
OpenContiguous(boundaries) ==
    /\ boundaries # <<>>
    /\ boundaries[1][1] = 0
    /\ \A k \in 1..(Len(boundaries) - 1) : boundaries[k][2] = Some(boundaries[k + 1][1])
    /\ boundaries[Len(boundaries)][2] = None
    /\ \A k \in 1..Len(boundaries) : boundaries[k][3] > 0

\* C28: on a contiguous boundary list that starts at offset 0 and is open at
\* its end, offset_to_seconds of nuggets_resolve.py, _offset_to_seconds of
\* nuggets_extract.py and _seconds_from_offset of mxl_parse.py (on the same
\* starts and tempi) give the same seconds for every offset >= 0.
C28_ConversionsAgree ==
    (seconds_at # None /\ OpenContiguous(tempo_boundaries(score.boundaries))) =>
      \A i \in 1..2 :
        /\ Get(seconds_at).resolve[i] = Get(seconds_at).extract[i]
        /\ Get(seconds_at).parse[i] = Get(seconds_at).extract[i]
        /\ ParseTempoMap = tempo_marks

\* an offset past two changes of tempo was converted on an open boundary list
C28_Witness ==
    /\ seconds_at # None
    /\ OpenContiguous(tempo_boundaries(score.boundaries))
    /\ Len(score.boundaries) = 3
    /\ score.boundaries[1][3] # score.boundaries[2][3]
    /\ score.boundaries[2][3] # score.boundaries[3][3]
    /\ Get(seconds_at).offsets[2] > score.boundaries[3][1]
    /\ Get(seconds_at).offsets[1] > 0


\* nugget k has no id, no location, or a start or end measure the part lacks
FailingNugget(k) ==
    \/ nuggets[k].id = None
    \/ nuggets[k].location = None
    \/ PartMeasure(score.part, Get(nuggets[k].location).startMeasure) = None
    \/ PartMeasure(score.part, Get(nuggets[k].location).endMeasure) = None

\* the tracks that have a note sequence
PresentTracks == {t \in TrackNames : note_sequences[t] # None}

\* the nugget list without its failing nuggets
SoundNuggets ==
    LET sound == SelectSeq([k \in 1..Len(nuggets) |-> k], LAMBDA k : ~FailingNugget(k))
    IN [i \in 1..Len(sound) |-> nuggets[sound[i]]]

C29_WitnessNoLocation ==
    /\ IsSome(extracted)
    /\ Len(nuggets) = 2
    /\ nuggets[1].location = None
    /\ \E i \in 1..Len(NuggetFiles) : NuggetFiles[i].id = 2


\* the locations of the nuggets an assembly refers to that exist and have a
\* location, as a set
ReferencedLocations(assembly) ==
    {Get(nuggets[k].location) :
        k \in {j \in 1..Len(nuggets) :
                 /\ assembly.nuggetIds # None
                 /\ nuggets[j].id # None
                 /\ \E i \in 1..Len(Get(assembly.nuggetIds)) :
                      Get(assembly.nuggetIds)[i] = Get(nuggets[j].id)
                 /\ nuggets[j].location # None}}

\* the files of the assemblies directory / nuggets directory for one id
FilesOfAssembly(id) == {AssemblyFiles[i] : i \in {j \in 1..Len(AssemblyFiles) : AssemblyFiles[j].id = id}}
FilesOfNugget(id) == {NuggetFiles[i] : i \in {j \in 1..Len(NuggetFiles) : NuggetFiles[j].id = id}}

\* the notes of a file at their times in the track
NotesOfFile(f) ==
    {[pitch |-> f.ns.notes[i].pitch, startTime |-> f.ns.notes[i].startTime + f.start_seconds] :
        i \in 1..Len(f.ns.notes)}

\* C30: an assembly without nuggetIds or without a referenced nugget that
\* exists and has a location writes no file; otherwise every file it writes
\* has the window from the least (startMeasure, startBeat) to the greatest
\* (endMeasure, endBeat) of the referenced nuggets, whatever the order of
\* nuggetIds, and holds every note of the file of each referenced nugget for
\* the same track.
C30_AssemblyCoversNuggets ==
    pc = "assemblies" =>
      \A a \in 1..Len(Get(extracted).assemblies) :
        LET assembly == Get(extracted).assemblies[a]
            locations == ReferencedLocations(assembly)
        IN IF locations = {}
           THEN FilesOfAssembly(a) = {}
           ELSE \A f \in FilesOfAssembly(a) :
                  /\ \E first \in locations :
                       /\ \A loc \in locations : KeyLE(get_start(first), get_start(loc))
                       /\ Some(f.start_offset) =
                            nuggets_extract_measure_offset(score.part, first.startMeasure,
                                                           first.startBeat)
                  /\ \E last \in locations :
                       /\ \A loc \in locations : KeyLE(get_end(loc), get_end(last))
                       /\ Some(f.end_offset) =
                            nuggets_extract_measure_offset(score.part, last.endMeasure,
                                                           last.endBeat)
                  /\ \A k \in 1..Len(nuggets) :
                       (nuggets[k].location # None
                          /\ Get(nuggets[k].location) \in locations)
                       => \A g \in FilesOfNugget(k) :
                            g.track = f.track => NotesOfFile(g) \subseteq NotesOfFile(f)

====
